---- MODULE Spec2Model ----
(***************************************************************************)
(* Logistics service (FastAPI + SQLAlchemy over MySQL): the request        *)
(* handlers of src/app/api/*.py acting on the eight tables declared in     *)
(* src/app/models/models.py.                                               *)
(*                                                                         *)
(* The store is the set of committed rows of each table.  The database     *)
(* enforces what models.py declares: auto-increment primary keys, NOT NULL *)
(* columns, FOREIGN KEY columns and the UNIQUE index on                    *)
(* envio.codigo_rastreo.  A handler is cut at its statement boundaries     *)
(* where another request can interleave: a handler that only issues one    *)
(* statement is one action, a handler that queries and then commits (or    *)
(* commits twice) is a sequence of steps of an in-flight request.          *)
(*                                                                         *)
(* reqs holds the requests under way (the handler, its next statement and  *)
(* its local variables), last the response most recently sent together     *)
(* with the number of transactions that request committed with changes.    *)
(*                                                                         *)
(* Spec runs every create, get-by-id, update and delete handler with one   *)
(* multi-statement request under way at a time (the single-statement       *)
(* handlers still run between its statements); SpecEnvio runs the handlers *)
(* that write the envio table with MaxInFlight requests under way;         *)
(* SpecFault adds the loss of the database connection during               *)
(* create_shipping; SpecCreate runs create_shipping against requests that  *)
(* set the estimated delivery date and add statuses; SpecTrack runs the    *)
(* status handlers and track_shipping over MaxTrackTime timestamps;        *)
(* SpecLogin runs the employee handlers and login; SpecRead fills the      *)
(* tables and runs every list, get-by-id, search and track handler;        *)
(* SpecRace runs concurrent updates of warehouses and shipments; SpecCodes *)
(* is SpecEnvio with a fair random choice of tracking codes; SpecOrder     *)
(* observes the order of search and list results over MaxTrackTime         *)
(* timestamps.                                                             *)
(*                                                                         *)
(* SpecServe and SpecStartup follow the application itself: startup with   *)
(* the connection loop of wait_for_db, then requests through get_db, which *)
(* runs the same loop, opens a session, hands it to the handler and closes *)
(* it.  There the first slot of reqs holds the startup until it completes, *)
(* and a request in reqs carries the retries left, the seconds slept and   *)
(* the state of its session.  The other specifications start with the      *)
(* application serving and the database reachable.                         *)
(*                                                                         *)
(* A search request also leaves in last the table it searched and the      *)
(* filters it carried.                                                     *)
(*                                                                         *)
(* Columns that every create, get, update and delete handler treats        *)
(* exactly like a modelled column of the same table are left out           *)
(* (descripcion, motivo, nombre, apellido1/2, telefono, puesto, area,      *)
(* direccion_bodega, tiempo_estimado, costo), and with them the search     *)
(* filters on those columns.                                               *)
(***************************************************************************)
EXTENDS Integers, Sequences, FiniteSets, TLC

\* ------------------------------------------------------------------ bounds
\* rows ever inserted in one table (auto-increment ids are 1..MaxId)
MaxId == 2
\* requests being handled at the same time
MaxInFlight == 2
\* opaque ids of the external services (pedido, direccion, producto)
MaxExt == 1
\* distinct timestamps the clock and the clients can produce
MaxTime == 1
\* quantities a client can send
MaxCantidad == 1
\* rows ever inserted in all tables together
MaxRows == 5
\* distinct timestamps of the status rows where their order is observed
MaxTrackTime == 3
\* rows a list or search request can skip
MaxSkip == 1

Ids == 1..MaxId
ExtIds == 1..MaxExt
Times == 1..MaxTime
Cantidades == 1..MaxCantidad
TrackTimes == 1..MaxTrackTime

\* SQL NULL / Python None of an integer or datetime column (ids and
\* timestamps are positive)
Null == 0
\* SQL NULL of the string column codigo_rastreo
NoCode == "NULL"

Tables == {"metodo_envio", "bodega", "empleado", "envio", "estado_envio",
           "devolucion", "devolucion_detalle", "log_bodega"}

VARIABLES metodo_envio, bodega, empleado, envio, estado_envio, devolucion,
          devolucion_detalle, log_bodega, autoinc, reqs, last

store == <<metodo_envio, bodega, empleado, envio, estado_envio, devolucion,
           devolucion_detalle, log_bodega, autoinc>>
vars == <<metodo_envio, bodega, empleado, envio, estado_envio, devolucion,
          devolucion_detalle, log_bodega, autoinc, reqs, last>>

\* the requests the server can be handling at the same time
Slots == DOMAIN reqs

\* ------------------------------------------------------------ table helpers
EmptyTable == [i \in {} |-> 0]
EmptyBody == [f \in {} |-> 0]

Put(t, id, row) == [i \in (DOMAIN t) \cup {id} |-> IF i = id THEN row ELSE t[i]]
Del(t, id) == [i \in (DOMAIN t) \ {id} |-> t[i]]

\* a full replace: the id and timestamp columns the body leaves out are
\* reset to NULL
SetAttrsReplace(row, data) ==
    [f \in DOMAIN row |->
        IF f \in DOMAIN data THEN data[f]
        ELSE IF f \in {"tipo", "estado", "email", "contrasena",
                       "codigo_rastreo"} THEN row[f]
        ELSE Null]

\* for field, value in update_data.items(): setattr(row, field, value)
SetAttrs(row, data) ==
    [f \in DOMAIN row |-> IF f \in DOMAIN data THEN data[f] ELSE row[f]]

\* the attributes the session sees as modified: SQLAlchemy emits an UPDATE
\* only for attributes whose new value differs from the loaded one
Dirty(row, data) ==
    {f \in (DOMAIN data) \cap (DOMAIN row) : data[f] # row[f]}

Restrict(data, S) == [f \in S |-> data[f]]

NextId(t) == autoinc[t] + 1

\* ---------------------------------------------------------------- responses
NotFound == [status |-> 404, error |-> "not_found"]

\* handle_db_error: every exception it is given becomes a 500 database_error
\* whose details carry str(e)
handle_db_error(e) ==
    [status |-> 500, error |-> "database_error", internal_error |-> e]

Success(code, body) == [status |-> code, error |-> "none", body |-> body]

\* The except clauses of a handler, applied to the exception e raised in
\* its try block.  reraise is TRUE for the handlers that have
\* "except HTTPException: raise" before "except Exception"; in the others
\* the HTTPException(404) raised by the handler itself is caught by
\* "except Exception" and handed to handle_db_error.
ExceptClauses(reraise, e) ==
    IF reraise /\ e = "HTTPException" THEN NotFound ELSE handle_db_error(e)

IsError(r) == r.error # "none"

Idle == [op |-> "idle"]

\* a finished request: what was answered and how many transactions the
\* request committed with changes
Done(resp, writes) == [resp |-> resp, writes |-> writes]

\* no request has been answered yet
NoResponse == Done([status |-> 0, error |-> "none"], 0)

\* the lowest free slot takes the next request
FreeSlot(s) == /\ reqs[s] = Idle
               /\ \A r \in Slots : r < s => reqs[r] # Idle

\* in-flight requests that have yet to insert into table t
Inserting(t) ==
    Cardinality({s \in Slots :
        \/ t = "envio" /\ reqs[s].op = "create_shipping"
                       /\ reqs[s].pc \in {"check", "add_envio"}
        \/ t = "estado_envio" /\ reqs[s].op \in
               {"create_shipping", "create_shipping_status"}
        \/ t = "devolucion" /\ reqs[s].op = "create_return"
        \/ t = "devolucion_detalle" /\ reqs[s].op = "create_return_detail"})


\* ------------------------------------------------- client input (bounded)
\* outputs of generate_tracking_code this model lets the random source
\* produce: 8 uppercase letters followed by 12 digits
GeneratedCodes == {"AAAAAAAA000000000000", "ZZZZZZZZ999999999999"}
\* strings a client can put in EnvioUpdate.codigo_rastreo (8..20 characters)
ClientCodes == {"AAAAAAAA000000000000", "cliente-01"}

\* the values a client sends for the columns no handler branches on
TipoInputs == {"estandar"}
BodegaTipoInputs == {"small"}
EstadoInputs == {"pendiente"}
DevolucionEstadoInputs == {"pendiente"}
Emails == {"ana@empresa.com"}
Passwords == {"secreto01"}

\* partial bodies: the fields the client set (exclude_unset=True keeps
\* exactly these); the empty body and the bodies that set one field
OneField(f, vals) == {[k \in {f} |-> v] : v \in vals}

MetodoEnvioCreateBodies == [tipo : TipoInputs]
MetodoEnvioUpdateBodies == {EmptyBody} \cup OneField("tipo", TipoInputs)

EnvioCreateBodies ==
    [pedido_id : ExtIds, direccion_id : ExtIds, metodo_envio_id : Ids]
EnvioUpdateBodies ==
    {EmptyBody} \cup OneField("pedido_id", ExtIds)
                \cup OneField("direccion_id", ExtIds)
                \cup OneField("metodo_envio_id", Ids \cup {Null})
                \cup OneField("fecha_envio", Times)
                \cup OneField("fecha_estimada_entrega", Times \cup {Null})
                \cup OneField("codigo_rastreo", ClientCodes \cup {NoCode})
\* the bodies that leave the tracking code and the estimated delivery alone
EnvioPlainUpdateBodies ==
    {b \in EnvioUpdateBodies :
        DOMAIN b \cap {"codigo_rastreo", "fecha_estimada_entrega"} = {}}
\* the bodies that set at most the tracking code
EnvioCodeUpdateBodies ==
    {b \in EnvioUpdateBodies : DOMAIN b \subseteq {"codigo_rastreo"}}

\* ------------------------------------------- what the database enforces
Rows(t) ==
    CASE t = "metodo_envio" -> metodo_envio
      [] t = "bodega" -> bodega
      [] t = "empleado" -> empleado
      [] t = "envio" -> envio
      [] t = "estado_envio" -> estado_envio
      [] t = "devolucion" -> devolucion
      [] t = "devolucion_detalle" -> devolucion_detalle
      [] t = "log_bodega" -> log_bodega

\* db.query(T).filter(T.pk == id).first() is not None
Exists(t, id) == id \in DOMAIN Rows(t)

\* a database that does not enforce its foreign keys
ForeignKeyUnenforced(parent, id) == TRUE

\* ForeignKey("parent.pk"): the statement is rejected unless the value is
\* NULL or the key of a parent row
ForeignKey(parent, id) == id = Null \/ id \in DOMAIN Rows(parent)

\* a codigo_rastreo column without its unique index
CodigoRastreoNotUnique(code, self) == TRUE

\* codigo_rastreo = Column(String(20), unique=True): no other row holds the
\* same non-NULL code
UniqueCodigoRastreo(code, self) ==
    code = NoCode \/
    \A i \in (DOMAIN envio) \ {self} : envio[i].codigo_rastreo # code

\* rows of child whose column fk names the parent row id
Children(child, fk, id) == {i \in DOMAIN Rows(child) : Rows(child)[i][fk] = id}

\* row caps: creating an envio also inserts an estado_envio
Cap(t) == IF t = "estado_envio" THEN MaxId + 1 ELSE MaxId

\* rows inserted so far plus the rows in-flight requests have yet to insert
SumOver(f) == f["metodo_envio"] + f["bodega"] + f["empleado"] + f["envio"]
              + f["estado_envio"] + f["devolucion"] + f["devolucion_detalle"]
              + f["log_bodega"]

\* a request that inserts n rows into table t is taken up only while the
\* bounds on the rows leave room for them
Room(t, n) == /\ autoinc[t] + Inserting(t) < Cap(t)
              /\ SumOver(autoinc) + SumOver([u \in Tables |-> Inserting(u)]) + n
                    <= MaxRows

\* an atomic handler answers at once
Answer(resp, writes) ==
    /\ last' = Done(resp, writes)
    /\ UNCHANGED reqs

\* an in-flight request ends
Finish(s, resp, writes) ==
    /\ last' = Done(resp, writes)
    /\ reqs' = [reqs EXCEPT ![s] = Idle]

\* an in-flight request moves on
Continue(s, r) ==
    /\ reqs' = [reqs EXCEPT ![s] = r]
    /\ UNCHANGED last

\* ------------------------------------------------- generic handler steps
\* the store after a statement that replaces the rows of table t and leaves
\* the auto-increment counters at ai
Write(t, rows, ai) ==
    /\ metodo_envio' = IF t = "metodo_envio" THEN rows ELSE metodo_envio
    /\ bodega' = IF t = "bodega" THEN rows ELSE bodega
    /\ empleado' = IF t = "empleado" THEN rows ELSE empleado
    /\ envio' = IF t = "envio" THEN rows ELSE envio
    /\ estado_envio' = IF t = "estado_envio" THEN rows ELSE estado_envio
    /\ devolucion' = IF t = "devolucion" THEN rows ELSE devolucion
    /\ devolucion_detalle' =
           IF t = "devolucion_detalle" THEN rows ELSE devolucion_detalle
    /\ log_bodega' = IF t = "log_bodega" THEN rows ELSE log_bodega
    /\ autoinc' = ai

\* a pydantic field of a partial body: None when the client left it out
Field(body, f) == IF f \in DOMAIN body THEN body[f] ELSE Null

\* schemas.X(...) built from a row: a ValidationError when the row does not
\* fit the response schema
Respond(code, valid, schema) ==
    IF valid THEN Success(code, schema) ELSE [raise |-> "ValidationError"]

\* the response of a handler whose try block ended in outcome: a response
\* built by the block, or the name of the exception it raised
Outcome(reraise, outcome) ==
    IF "raise" \in DOMAIN outcome THEN ExceptClauses(reraise, outcome.raise)
    ELSE outcome

\* get-by-id: query, raise 404 when absent, build the response; no
\* get-by-id handler has "except HTTPException: raise"
GetResponse(t, id, valid, schema) ==
    IF ~Exists(t, id) THEN ExceptClauses(FALSE, "HTTPException")
    ELSE Outcome(FALSE, Respond(200, valid, schema))

GetRow(t, id, valid, schema) ==
    /\ Answer(GetResponse(t, id, valid, schema), 0)
    /\ UNCHANGED store

\* db.add(row); db.commit(); db.refresh(row); return schema -- the INSERT is
\* rejected with an IntegrityError when a constraint fails
InsertRow(t, row, rejected) ==
    IF rejected THEN UNCHANGED store
    ELSE Write(t, Put(Rows(t), NextId(t), row),
               [autoinc EXCEPT ![t] = NextId(t)])

\* creates that issue a single statement
CreateRow(t, row, rejected, valid, schema) ==
    /\ Room(t, 1)
    /\ InsertRow(t, row, rejected)
    /\ Answer(IF rejected THEN ExceptClauses(FALSE, "IntegrityError")
              ELSE Outcome(FALSE, Respond(201, valid, schema)),
              IF rejected THEN 0 ELSE 1)

\* creates that first query the rows the body refers to: the 404 raised when
\* one is missing, else the request goes on to its INSERT
BeginCreate(s, op, t, body, missing, reraise) ==
    /\ FreeSlot(s)
    /\ Room(t, 1)
    /\ IF missing
       THEN /\ last' = Done(ExceptClauses(reraise, "HTTPException"), 0)
            /\ UNCHANGED reqs
       ELSE /\ reqs' = [reqs EXCEPT ![s] =
                            [op |-> op, pc |-> "insert", body |-> body]]
            /\ UNCHANGED last
    /\ UNCHANGED store

CommitCreate(s, op, t, row, rejected, reraise, valid, schema) ==
    /\ reqs[s].op = op
    /\ reqs[s].pc = "insert"
    /\ InsertRow(t, row, rejected)
    /\ Finish(s,
              IF rejected THEN ExceptClauses(reraise, "IntegrityError")
              ELSE Outcome(reraise, Respond(201, valid, schema)),
              IF rejected THEN 0 ELSE 1)

\* partial update, first half: load the row (404 when absent), run the
\* handler's own reference checks (404 when one fails), setattr the fields
\* of update_data on the loaded object
BeginUpdate(s, op, t, id, data, missing, reraise) ==
    /\ FreeSlot(s)
    /\ IF ~Exists(t, id) \/ missing
       THEN /\ last' = Done(ExceptClauses(reraise, "HTTPException"), 0)
            /\ UNCHANGED reqs
       ELSE /\ reqs' = [reqs EXCEPT ![s] =
                            [op |-> op, pc |-> "commit", id |-> id,
                             data |-> Restrict(data, Dirty(Rows(t)[id], data))]]
            /\ UNCHANGED last
    /\ UNCHANGED store

\* partial update, second half: db.commit() flushes an UPDATE of the
\* modified attributes (StaleDataError when the row is gone, IntegrityError
\* when a constraint rejects it), db.refresh(row) reads the row back
\* (InvalidRequestError when it is gone) and the response is built from it
CommitUpdate(s, op, t, rejected, reraise, valid, schema) ==
    /\ reqs[s].op = op
    /\ reqs[s].pc = "commit"
    /\ LET id == reqs[s].id
           unchanged == reqs[s].data = EmptyBody
           exc == IF ~Exists(t, id)
                  THEN IF unchanged THEN "InvalidRequestError"
                                    ELSE "StaleDataError"
                  ELSE IF ~unchanged /\ rejected THEN "IntegrityError"
                  ELSE "none"
       IN IF exc # "none"
          THEN /\ Finish(s, ExceptClauses(reraise, exc), 0)
               /\ UNCHANGED store
          ELSE /\ Write(t, Put(Rows(t), id, SetAttrs(Rows(t)[id], reqs[s].data)),
                        autoinc)
               /\ Finish(s, Outcome(reraise, Respond(200, valid, schema)),
                         IF unchanged THEN 0 ELSE 1)

\* the row an in-flight update writes
Updated(s, t) == SetAttrs(Rows(t)[reqs[s].id], reqs[s].data)

\* a delete that the database lets through although child rows name the
\* row
DeleteRowCascading(t, id, blocked) ==
    /\ IF ~Exists(t, id)
       THEN /\ Answer(ExceptClauses(FALSE, "HTTPException"), 0)
            /\ UNCHANGED store
       ELSE /\ Write(t, Del(Rows(t), id), autoinc)
            /\ Answer(Success(204, "no content"), 1)

\* delete: load the row (404 when absent), db.delete, db.commit.  blocked:
\* a child row with a NOT NULL foreign key still names the row -- the
\* relationship has no delete cascade, so the session tries to set the
\* child's foreign key to NULL and the database rejects it
DeleteRow(t, id, blocked) ==
    /\ IF ~Exists(t, id)
       THEN /\ Answer(ExceptClauses(FALSE, "HTTPException"), 0)
            /\ UNCHANGED store
       ELSE IF blocked
       THEN /\ Answer(ExceptClauses(FALSE, "IntegrityError"), 0)
            /\ UNCHANGED store
       ELSE /\ Write(t, Del(Rows(t), id), autoinc)
            /\ Answer(Success(204, "no content"), 1)


\* a constraint only looks at the columns the UPDATE sets: the FOREIGN KEY of
\* column f, and its NOT NULL unless the column is nullable
FkRejects(data, f, parent, nullable) ==
    /\ f \in DOMAIN data
    /\ \/ ~ForeignKey(parent, data[f])
       \/ ~nullable /\ data[f] = Null

\* ------------------------------------------------------------ metodo_envio
MetodoEnvioSchema(id, row) == [metodo_envio_id |-> id, tipo |-> row.tipo]

create_shipping_method(body) ==
    LET row == [tipo |-> body.tipo]
    IN CreateRow("metodo_envio", row, FALSE,
                 TRUE, MetodoEnvioSchema(NextId("metodo_envio"), row))

get_shipping_method(id) ==
    GetRow("metodo_envio", id, TRUE,
           MetodoEnvioSchema(id, metodo_envio[id]))

update_shipping_method_load(s, id, body) ==
    BeginUpdate(s, "update_shipping_method", "metodo_envio", id, body,
                FALSE, FALSE)

update_shipping_method_commit(s) ==
    CommitUpdate(s, "update_shipping_method", "metodo_envio", FALSE, FALSE,
                 TRUE, MetodoEnvioSchema(reqs[s].id, Updated(s, "metodo_envio")))

delete_shipping_method(id) ==
    DeleteRow("metodo_envio", id,
              Children("envio", "metodo_envio_id", id) # {})

\* ------------------------------------------------------------------ bodega
BodegaCreateBodies == [tipo : BodegaTipoInputs]
BodegaUpdateBodies == {EmptyBody} \cup OneField("tipo", BodegaTipoInputs)

BodegaSchema(id, row) == [bodega_id |-> id, tipo |-> row.tipo]

create_warehouse(body) ==
    LET row == [tipo |-> body.tipo]
    IN CreateRow("bodega", row, FALSE, TRUE,
                 BodegaSchema(NextId("bodega"), row))

get_warehouse(id) ==
    GetRow("bodega", id, TRUE, BodegaSchema(id, bodega[id]))

update_warehouse_load(s, id, body) ==
    BeginUpdate(s, "update_warehouse", "bodega", id, body, FALSE, FALSE)

update_warehouse_commit(s) ==
    CommitUpdate(s, "update_warehouse", "bodega", FALSE, FALSE, TRUE,
                 BodegaSchema(reqs[s].id, Updated(s, "bodega")))

delete_warehouse(id) ==
    DeleteRow("bodega", id,
              Children("log_bodega", "bodega_id", id) # {})


\* ---------------------------------------------------------------- empleado
EmpleadoCreateBodies == [email : Emails, contrasena : Passwords]
EmpleadoUpdateBodies ==
    {EmptyBody} \cup OneField("email", Emails)
                \cup OneField("contrasena", Passwords)

\* security.get_password_hash
get_password_hash(password) == <<"hash", password>>

\* schemas.Empleado has no contrasena field
EmpleadoSchema(id, row) == [empleado_id |-> id, email |-> row.email]

create_employee(body) ==
    LET row == [email |-> body.email,
                contrasena |-> get_password_hash(body.contrasena)]
    IN CreateRow("empleado", row, FALSE, TRUE,
                 EmpleadoSchema(NextId("empleado"), row))

get_employee(id) ==
    GetRow("empleado", id, TRUE,
           EmpleadoSchema(id, empleado[id]))

\* an update that stores the password of the body as it came
update_employee_load_unhashed(s, id, body) ==
    BeginUpdate(s, "update_employee", "empleado", id,
                [f \in DOMAIN body |->
                    IF f = "contrasena" THEN <<"plain", body[f]>>
                    ELSE body[f]],
                FALSE, FALSE)

update_employee_load(s, id, body) ==
    BeginUpdate(s, "update_employee", "empleado", id,
                [f \in DOMAIN body |->
                    IF f = "contrasena" THEN get_password_hash(body[f])
                    ELSE body[f]],
                FALSE, FALSE)

update_employee_commit(s) ==
    CommitUpdate(s, "update_employee", "empleado", FALSE, FALSE, TRUE,
                 EmpleadoSchema(reqs[s].id, Updated(s, "empleado")))

\* Empleado.estados_envio and Empleado.logs_bodega have no delete cascade:
\* the session sets the foreign key of every child to NULL before the
\* DELETE.  estado_envio.empleado_id is nullable, log_bodega.empleado_id is
\* not.
delete_employee(id) ==
    /\ IF ~Exists("empleado", id)
       THEN /\ Answer(ExceptClauses(FALSE, "HTTPException"), 0)
            /\ UNCHANGED store
       ELSE IF Children("log_bodega", "empleado_id", id) # {}
       THEN /\ Answer(ExceptClauses(FALSE, "IntegrityError"), 0)
            /\ UNCHANGED store
       ELSE /\ empleado' = Del(empleado, id)
            /\ estado_envio' =
                 [i \in DOMAIN estado_envio |->
                    IF estado_envio[i].empleado_id = id
                    THEN [estado_envio[i] EXCEPT !.empleado_id = Null]
                    ELSE estado_envio[i]]
            /\ Answer(Success(204, "no content"), 1)
            /\ UNCHANGED <<metodo_envio, bodega, envio, devolucion,
                           devolucion_detalle, log_bodega, autoinc>>

\* security.verify_password
verify_password(password, hashed) == hashed = get_password_hash(password)

\* security.create_access_token(data={"sub": empleado.email}, ...)
create_access_token(sub) == <<"jwt", sub>>

\* the response login_for_access_token means to give to bad credentials
InvalidCredentials == [status |-> 401, error |-> "invalid_credentials"]

\* the rows of ids in primary-key order: a query without ORDER BY scans the
\* clustered index
ByPrimaryKey(ids) ==
    CHOOSE seq \in [1..Cardinality(ids) -> ids] :
        \A j, k \in DOMAIN seq : j < k => seq[j] < seq[k]

\* empleado = query(Empleado).filter(email == credentials.email).first()
\* if not empleado or not verify_password(...): raise HTTPException(401)
\* -- inside the try block, whose only clause is "except Exception as e:
\* handle_db_error(e, ...)"
login_for_access_token(credentials) ==
    LET found == {i \in DOMAIN empleado :
                     empleado[i].email = credentials.email}
        first == ByPrimaryKey(found)[1]
    IN /\ UNCHANGED store
       /\ IF \/ found = {}
             \/ ~verify_password(credentials.password,
                                 empleado[first].contrasena)
          THEN Answer(ExceptClauses(FALSE, "HTTPException 401"), 0)
          ELSE Answer(Success(200,
                   [access_token |-> create_access_token(empleado[first].email),
                    token_type |-> "bearer"]), 0)

\* ------------------------------------------------------------------- envio
EnvioSchema(id, row) ==
    [envio_id |-> id, pedido_id |-> row.pedido_id,
     direccion_id |-> row.direccion_id,
     metodo_envio_id |-> row.metodo_envio_id, fecha_envio |-> row.fecha_envio,
     fecha_estimada_entrega |-> row.fecha_estimada_entrega,
     codigo_rastreo |-> row.codigo_rastreo]

\* schemas.Envio declares fecha_estimada_entrega: datetime (required, not
\* Optional): a row whose column is NULL does not validate
EnvioValid(row) == row.fecha_estimada_entrega # Null

\* tracking_code = generate_tracking_code()
create_shipping_start(s, body, code) ==
    /\ FreeSlot(s)
    /\ Room("envio", 2)
    /\ Room("estado_envio", 2)
    /\ Continue(s, [op |-> "create_shipping", pc |-> "check", body |-> body,
                    tracking_code |-> code, db_envio |-> Null, writes |-> 0])
    /\ UNCHANGED store

\* a loop that accepts its candidate without querying the table
create_shipping_check_skipped(s, code) ==
    /\ reqs[s].op = "create_shipping"
    /\ reqs[s].pc = "check"
    /\ Continue(s, [reqs[s] EXCEPT !.pc = "add_envio"])
    /\ UNCHANGED store

\* while db.query(Envio).filter(codigo_rastreo == tracking_code).first():
\*     tracking_code = generate_tracking_code()
create_shipping_check(s, code) ==
    /\ reqs[s].op = "create_shipping"
    /\ reqs[s].pc = "check"
    /\ IF \E i \in DOMAIN envio : envio[i].codigo_rastreo = reqs[s].tracking_code
       THEN Continue(s, [reqs[s] EXCEPT !.tracking_code = code])
       ELSE Continue(s, [reqs[s] EXCEPT !.pc = "add_envio"])
    /\ UNCHANGED store

\* db_envio = Envio(**envio.dict(), codigo_rastreo=tracking_code)
\* db.add(db_envio); db.commit(); db.refresh(db_envio)
create_shipping_add_envio(s, now) ==
    /\ reqs[s].op = "create_shipping"
    /\ reqs[s].pc = "add_envio"
    /\ LET body == reqs[s].body
           row == [pedido_id |-> body.pedido_id,
                   direccion_id |-> body.direccion_id,
                   metodo_envio_id |-> body.metodo_envio_id,
                   fecha_envio |-> now,
                   fecha_estimada_entrega |-> Null,
                   codigo_rastreo |-> reqs[s].tracking_code]
           rejected == \/ ~ForeignKey("metodo_envio", row.metodo_envio_id)
                       \/ ~UniqueCodigoRastreo(row.codigo_rastreo, Null)
       IN /\ InsertRow("envio", row, rejected)
          /\ IF rejected
             THEN Finish(s, ExceptClauses(FALSE, "IntegrityError"), 0)
             ELSE Continue(s, [reqs[s] EXCEPT !.pc = "add_estado",
                                              !.db_envio = NextId("envio"),
                                              !.writes = 1])

\* an initial status that is not pending
InitialEstadoEnviado(id, now) ==
    [envio_id |-> id, estado |-> "enviado", fecha |-> now,
     empleado_id |-> Null]

\* db_estado = EstadoEnvio(envio_id=db_envio.envio_id, estado="pendiente", ...)
InitialEstadoEnvio(id, now) ==
    [envio_id |-> id, estado |-> "pendiente", fecha |-> now,
     empleado_id |-> Null]

\* db.add(db_estado); db.commit(); return schemas.Envio(...)
create_shipping_add_estado(s, now) ==
    /\ reqs[s].op = "create_shipping"
    /\ reqs[s].pc = "add_estado"
    /\ LET id == reqs[s].db_envio
           row == InitialEstadoEnvio(id, now)
           rejected == ~ForeignKey("envio", id)
       IN /\ InsertRow("estado_envio", row, rejected)
          /\ Finish(s,
                    IF rejected THEN ExceptClauses(FALSE, "IntegrityError")
                    ELSE Outcome(FALSE, Respond(201, EnvioValid(envio[id]),
                                                EnvioSchema(id, envio[id]))),
                    IF rejected THEN 1 ELSE 2)

\* a statement of create_shipping raises OperationalError (the connection
\* to the database is lost): except Exception: db.rollback();
\* handle_db_error.  The rollback undoes nothing that was committed.
create_shipping_rollback(s) ==
    /\ reqs[s].op = "create_shipping"
    /\ Finish(s, ExceptClauses(FALSE, "OperationalError"), reqs[s].writes)
    /\ UNCHANGED store

get_shipping(id) ==
    GetRow("envio", id, EnvioValid(envio[id]),
           EnvioSchema(id, envio[id]))

\* no query for the metodo_envio the body names
update_shipping_load(s, id, body) ==
    BeginUpdate(s, "update_shipping", "envio", id, body, FALSE, FALSE)

\* a commit guarded by a version check: it is refused while another update
\* of the same shipment is under way
update_shipping_commit_guarded(s) ==
    /\ reqs[s].op = "update_shipping"
    /\ reqs[s].pc = "commit"
    /\ IF \E r \in Slots \ {s} : /\ reqs[r].op = "update_shipping"
                                 /\ reqs[r].id = reqs[s].id
       THEN /\ Finish(s, ExceptClauses(FALSE, "StaleDataError"), 0)
            /\ UNCHANGED store
       ELSE CommitUpdate(s, "update_shipping", "envio", FALSE, FALSE,
                         EnvioValid(Updated(s, "envio")),
                         EnvioSchema(reqs[s].id, Updated(s, "envio")))

update_shipping_commit(s) ==
    CommitUpdate(s, "update_shipping", "envio",
                 \/ FkRejects(reqs[s].data, "metodo_envio_id", "metodo_envio", FALSE)
                 \/ /\ "codigo_rastreo" \in DOMAIN reqs[s].data
                    /\ ~UniqueCodigoRastreo(reqs[s].data.codigo_rastreo,
                                            reqs[s].id),
                 FALSE, EnvioValid(Updated(s, "envio")),
                 EnvioSchema(reqs[s].id, Updated(s, "envio")))

delete_shipping(id) ==
    DeleteRow("envio", id,
              \/ Children("estado_envio", "envio_id", id) # {}
              \/ Children("devolucion", "envio_id", id) # {})


\* ------------------------------------------------------------ estado_envio
EstadoEnvioCreateBodies ==
    [envio_id : Ids, estado : EstadoInputs, empleado_id : Ids \cup {Null}]
EstadoEnvioUpdateBodies ==
    {EmptyBody} \cup OneField("envio_id", Ids \cup {Null})
                \cup OneField("estado", EstadoInputs)
                \cup OneField("fecha", Times)
                \cup OneField("empleado_id", Ids \cup {Null})

EstadoEnvioSchema(id, row) ==
    [estado_envio_id |-> id, envio_id |-> row.envio_id, estado |-> row.estado,
     fecha |-> row.fecha, empleado_id |-> row.empleado_id]

EstadoEnvioRow(body, now) ==
    [envio_id |-> body.envio_id, estado |-> body.estado, fecha |-> now,
     empleado_id |-> body.empleado_id]

\* queries the envio, and the empleado "if estado.empleado_id:"
create_shipping_status_check(s, body) ==
    BeginCreate(s, "create_shipping_status", "estado_envio", body,
                \/ ~Exists("envio", body.envio_id)
                \/ body.empleado_id # Null /\ ~Exists("empleado", body.empleado_id),
                FALSE)

create_shipping_status_insert(s, now) ==
    LET row == EstadoEnvioRow(reqs[s].body, now)
    IN CommitCreate(s, "create_shipping_status", "estado_envio", row,
                    \/ ~ForeignKey("envio", row.envio_id)
                    \/ ~ForeignKey("empleado", row.empleado_id),
                    FALSE, TRUE,
                    EstadoEnvioSchema(NextId("estado_envio"), row))

get_shipping_status(id) ==
    GetRow("estado_envio", id, TRUE,
           EstadoEnvioSchema(id, estado_envio[id]))

\* queries the empleado "if estado.empleado_id:", never the envio
update_shipping_status_load(s, id, body) ==
    BeginUpdate(s, "update_shipping_status", "estado_envio", id, body,
                /\ Field(body, "empleado_id") # Null
                /\ ~Exists("empleado", Field(body, "empleado_id")),
                FALSE)

update_shipping_status_commit(s) ==
    CommitUpdate(s, "update_shipping_status", "estado_envio",
                 \/ FkRejects(reqs[s].data, "envio_id", "envio", FALSE)
                 \/ FkRejects(reqs[s].data, "empleado_id", "empleado", TRUE),
                 FALSE, TRUE,
                 EstadoEnvioSchema(reqs[s].id, Updated(s, "estado_envio")))

delete_shipping_status(id) ==
    DeleteRow("estado_envio", id, FALSE)

\* a JSON array in a response body: items holds its elements in order
ListOf(seq) == [items |-> seq]

\* the orders in which a query can return the rows ids: each row once
Orderings(ids) ==
    {seq \in [1..Cardinality(ids) -> ids] :
        \A j, k \in DOMAIN seq : j # k => seq[j] # seq[k]}

\* a query without its ORDER BY
Unordered(ids) == Orderings(ids)

\* .order_by(models.EstadoEnvio.fecha.desc()): rows with equal fecha come in
\* an order the database chooses
OrderByFechaDesc(ids) ==
    {seq \in Orderings(ids) :
        \A j, k \in DOMAIN seq :
            j < k => estado_envio[seq[j]].fecha >= estado_envio[seq[k]].fecha}

\* envio = query(Envio).filter(codigo_rastreo == tracking_code).first()
\* (the unique index leaves at most one); 404 inside the try block when
\* there is none; else the estado_envio rows of envio.envio_id, ordered.
\* Both queries run in one transaction and read the same snapshot.
track_shipping(tracking_code) ==
    LET owners == {i \in DOMAIN envio :
                      envio[i].codigo_rastreo = tracking_code}
    IN /\ UNCHANGED store
       /\ IF owners = {}
          THEN Answer(ExceptClauses(FALSE, "HTTPException"), 0)
          ELSE \E id \in owners :
               \E seq \in OrderByFechaDesc(
                              Children("estado_envio", "envio_id", id)) :
                  Answer(Success(200, ListOf(
                      [k \in DOMAIN seq |->
                          EstadoEnvioSchema(seq[k], estado_envio[seq[k]])])),
                      0)

\* -------------------------------------------------------------- devolucion
DevolucionCreateBodies == [envio_id : Ids]
DevolucionUpdateBodies ==
    {EmptyBody} \cup OneField("envio_id", Ids \cup {Null})
                \cup OneField("fecha", Times)
                \cup OneField("estado", DevolucionEstadoInputs)

DevolucionSchema(id, row) ==
    [devolucion_id |-> id, envio_id |-> row.envio_id, fecha |-> row.fecha,
     estado |-> row.estado]

\* fecha and estado come from the column defaults
DevolucionRow(body, now) ==
    [envio_id |-> body.envio_id, fecha |-> now, estado |-> "pendiente"]

create_return_check(s, body) ==
    BeginCreate(s, "create_return", "devolucion", body,
                ~Exists("envio", body.envio_id), TRUE)

create_return_insert(s, now) ==
    LET row == DevolucionRow(reqs[s].body, now)
    IN CommitCreate(s, "create_return", "devolucion", row,
                    ~ForeignKey("envio", row.envio_id), TRUE, TRUE,
                    DevolucionSchema(NextId("devolucion"), row))

get_return(id) ==
    GetRow("devolucion", id, TRUE,
           DevolucionSchema(id, devolucion[id]))

\* if devolucion.envio_id and devolucion.envio_id != db_devolucion.envio_id:
\* an update_return without "except HTTPException: raise"
update_return_load_swallowing(s, id, body) ==
    BeginUpdate(s, "update_return", "devolucion", id, body,
                /\ Exists("devolucion", id)
                /\ Field(body, "envio_id") # Null
                /\ Field(body, "envio_id") # devolucion[id].envio_id
                /\ ~Exists("envio", Field(body, "envio_id")),
                FALSE)

update_return_load(s, id, body) ==
    BeginUpdate(s, "update_return", "devolucion", id, body,
                /\ Exists("devolucion", id)
                /\ Field(body, "envio_id") # Null
                /\ Field(body, "envio_id") # devolucion[id].envio_id
                /\ ~Exists("envio", Field(body, "envio_id")),
                TRUE)

update_return_commit(s) ==
    CommitUpdate(s, "update_return", "devolucion",
                 FkRejects(reqs[s].data, "envio_id", "envio", FALSE), TRUE, TRUE,
                 DevolucionSchema(reqs[s].id, Updated(s, "devolucion")))

delete_return(id) ==
    DeleteRow("devolucion", id,
              Children("devolucion_detalle", "devolucion_id", id) # {})

\* ------------------------------------------------------ devolucion_detalle
DevolucionDetalleCreateBodies ==
    [devolucion_id : Ids, producto_id : ExtIds, cantidad : Cantidades]
DevolucionDetalleUpdateBodies ==
    {EmptyBody} \cup OneField("devolucion_id", Ids \cup {Null})
                \cup OneField("producto_id", ExtIds)
                \cup OneField("cantidad", Cantidades)

DevolucionDetalleSchema(id, row) ==
    [devolucion_detalle_id |-> id, devolucion_id |-> row.devolucion_id,
     producto_id |-> row.producto_id, cantidad |-> row.cantidad]

create_return_detail_check(s, body) ==
    BeginCreate(s, "create_return_detail", "devolucion_detalle", body,
                ~Exists("devolucion", body.devolucion_id), TRUE)

create_return_detail_insert(s) ==
    LET row == reqs[s].body
    IN CommitCreate(s, "create_return_detail", "devolucion_detalle", row,
                    ~ForeignKey("devolucion", row.devolucion_id), TRUE, TRUE,
                    DevolucionDetalleSchema(NextId("devolucion_detalle"), row))

get_return_detail(id) ==
    GetRow("devolucion_detalle", id, TRUE,
           DevolucionDetalleSchema(id, devolucion_detalle[id]))

\* if detalle.devolucion_id is not None:
update_return_detail_load(s, id, body) ==
    BeginUpdate(s, "update_return_detail", "devolucion_detalle", id, body,
                /\ Field(body, "devolucion_id") # Null
                /\ ~Exists("devolucion", Field(body, "devolucion_id")),
                TRUE)

update_return_detail_commit(s) ==
    CommitUpdate(s, "update_return_detail", "devolucion_detalle",
                 FkRejects(reqs[s].data, "devolucion_id", "devolucion", FALSE),
                 TRUE, TRUE,
                 DevolucionDetalleSchema(reqs[s].id,
                                         Updated(s, "devolucion_detalle")))

delete_return_detail(id) ==
    DeleteRow("devolucion_detalle", id, FALSE)

\* -------------------------------------------------------------- log_bodega
LogBodegaCreateBodies ==
    [producto_id : ExtIds, cantidad : Cantidades, bodega_id : Ids,
     empleado_id : Ids]
LogBodegaUpdateBodies ==
    {EmptyBody} \cup OneField("producto_id", ExtIds)
                \cup OneField("cantidad", Cantidades)
                \cup OneField("fecha", Times)
                \cup OneField("bodega_id", Ids \cup {Null})
                \cup OneField("empleado_id", Ids \cup {Null})

LogBodegaSchema(id, row) ==
    [log_bodega_id |-> id, producto_id |-> row.producto_id,
     cantidad |-> row.cantidad, fecha |-> row.fecha,
     bodega_id |-> row.bodega_id, empleado_id |-> row.empleado_id]

\* no query for the bodega or the empleado the body names
create_warehouse_log(body, now) ==
    LET row == [producto_id |-> body.producto_id, cantidad |-> body.cantidad,
                fecha |-> now, bodega_id |-> body.bodega_id,
                empleado_id |-> body.empleado_id]
    IN CreateRow("log_bodega", row,
                 \/ ~ForeignKey("bodega", row.bodega_id)
                 \/ ~ForeignKey("empleado", row.empleado_id),
                 TRUE, LogBodegaSchema(NextId("log_bodega"), row))

get_warehouse_log(id) ==
    GetRow("log_bodega", id, TRUE,
           LogBodegaSchema(id, log_bodega[id]))

update_warehouse_log_load(s, id, body) ==
    BeginUpdate(s, "update_warehouse_log", "log_bodega", id, body,
                FALSE, FALSE)

update_warehouse_log_commit(s) ==
    CommitUpdate(s, "update_warehouse_log", "log_bodega",
                 \/ FkRejects(reqs[s].data, "bodega_id", "bodega", FALSE)
                 \/ FkRejects(reqs[s].data, "empleado_id", "empleado", FALSE),
                 FALSE, TRUE,
                 LogBodegaSchema(reqs[s].id, Updated(s, "log_bodega")))

delete_warehouse_log(id) ==
    DeleteRow("log_bodega", id, FALSE)

\* ------------------------------------------------------ lists and searches
\* schemas.X(...) built from row id of table t
RowSchema(t, id) ==
    CASE t = "metodo_envio" -> MetodoEnvioSchema(id, metodo_envio[id])
      [] t = "bodega" -> BodegaSchema(id, bodega[id])
      [] t = "empleado" -> EmpleadoSchema(id, empleado[id])
      [] t = "envio" -> EnvioSchema(id, envio[id])
      [] t = "estado_envio" -> EstadoEnvioSchema(id, estado_envio[id])
      [] t = "devolucion" -> DevolucionSchema(id, devolucion[id])
      [] t = "devolucion_detalle" ->
            DevolucionDetalleSchema(id, devolucion_detalle[id])
      [] t = "log_bodega" -> LogBodegaSchema(id, log_bodega[id])

\* only schemas.Envio has a required field whose column is nullable
RowValid(t, id) == t = "envio" => EnvioValid(envio[id])

\* .offset(skip).limit(limit): the rows of seq after the first skip, at most
\* limit of them
Page(seq, skip, limit) ==
    [k \in 1..(IF Len(seq) - skip < limit THEN Len(seq) - skip ELSE limit)
        |-> seq[skip + k]]

\* return [schemas.X(...) for row in rows] inside the try block: one row
\* that does not validate fails the whole request
ListResponse(t, seq) ==
    Outcome(FALSE,
            Respond(200, \A k \in DOMAIN seq : RowValid(t, seq[k]),
                    ListOf([k \in DOMAIN seq |-> RowSchema(t, seq[k])])))

\* db.query(T).offset(skip).limit(limit).all(): no ORDER BY
GetRowsResponse(t, skip, limit) ==
    ListResponse(t, Page(ByPrimaryKey(DOMAIN Rows(t)), skip, limit))

\* a list request that empties the table it read
GetRowsAndPurge(t, skip, limit) ==
    /\ Answer(GetRowsResponse(t, skip, limit), 0)
    /\ Write(t, EmptyTable, autoinc)

\* list
GetRows(t, skip, limit) ==
    /\ Answer(GetRowsResponse(t, skip, limit), 0)
    /\ UNCHANGED store

get_shipping_methods(skip, limit) == GetRows("metodo_envio", skip, limit)
get_warehouses(skip, limit) == GetRows("bodega", skip, limit)
get_employees(skip, limit) == GetRows("empleado", skip, limit)
get_shippings(skip, limit) == GetRows("envio", skip, limit)
get_shipping_statuses(skip, limit) == GetRows("estado_envio", skip, limit)
get_returns(skip, limit) == GetRows("devolucion", skip, limit)
get_return_details(skip, limit) == GetRows("devolucion_detalle", skip, limit)
get_warehouse_logs(skip, limit) == GetRows("log_bodega", skip, limit)

\* "if x is not None:" -- the parameter was sent
Supplied(params, f) == f \in DOMAIN params

\* "if x:" on an integer parameter -- it was sent and is not 0
Truthy(params, f) == f \in DOMAIN params /\ params[f] # 0

\* column.ilike(f"%{fragment}%") on the strings of this model: the value
\* contains the fragment, letter case ignored
ILike(value, fragment) ==
    CASE fragment = "ANA@" -> value = "ana@empresa.com"
      [] fragment = "Empresa" ->
            value \in {"ana@empresa.com", "otro@empresa.com"}
      [] fragment = "aaaaaaaa" -> value = "AAAAAAAA000000000000"
      [] fragment = "CLIENTE-" -> value = "cliente-01"
      [] OTHER -> FALSE

\* column >= f"{desde} 00:00:00" and column <= f"{hasta} 23:59:59" (a NULL
\* column satisfies neither)
InRange(value, params, desde, hasta) ==
    /\ Supplied(params, desde) => value # Null /\ value >= params[desde]
    /\ Supplied(params, hasta) => value # Null /\ value <= params[hasta]

\* the exchange of a search request: the filters it carried and the answer
Searched(t, params, resp) ==
    [resp |-> resp, writes |-> 0, search |-> t, filters |-> params]

\* a search without the check for "every filter is None"
SearchRowsUnguarded(t, params, seqs, skip, limit) ==
    /\ \E seq \in seqs :
          last' = Searched(t, params, ListResponse(t, Page(seq, skip, limit)))
    /\ UNCHANGED reqs
    /\ UNCHANGED store

\* search: [] when every filter is None, before any query; else the page
\* of the filtered rows, in one of the orders seqs the query can give
SearchRows(t, params, seqs, skip, limit) ==
    /\ IF params = EmptyBody
       THEN last' = Searched(t, params, Success(200, ListOf(<< >>)))
       ELSE \E seq \in seqs :
               last' = Searched(t, params,
                                ListResponse(t, Page(seq, skip, limit)))
    /\ UNCHANGED reqs
    /\ UNCHANGED store

\* filters: tipo (the filters on descripcion, tiempo_estimado and costo are
\* not modelled)
search_shipping_methods(params, skip, limit) ==
    SearchRows("metodo_envio", params,
        {ByPrimaryKey({i \in DOMAIN metodo_envio :
            Supplied(params, "tipo") => metodo_envio[i].tipo = params.tipo})},
        skip, limit)

\* filters: tipo (direccion is not modelled)
search_warehouses(params, skip, limit) ==
    SearchRows("bodega", params,
        {ByPrimaryKey({i \in DOMAIN bodega :
            Supplied(params, "tipo") => bodega[i].tipo = params.tipo})},
        skip, limit)

\* filters: email (nombre, apellido1, apellido2, puesto and area are not
\* modelled)
search_employees(params, skip, limit) ==
    SearchRows("empleado", params,
        {ByPrimaryKey({i \in DOMAIN empleado :
            Supplied(params, "email")
               => ILike(empleado[i].email, params.email)})},
        skip, limit)

search_shippings_range(params, skip, limit) ==
    SearchRows("envio", params,
        {ByPrimaryKey({i \in DOMAIN envio :
            /\ Truthy(params, "pedido_id")
                  => envio[i].pedido_id = params.pedido_id
            /\ Truthy(params, "direccion_id")
                  => envio[i].direccion_id = params.direccion_id
            /\ Truthy(params, "metodo_envio_id")
                  => envio[i].metodo_envio_id = params.metodo_envio_id
            /\ InRange(envio[i].fecha_envio, params,
                       "fecha_envio_desde", "fecha_envio_hasta")
            /\ InRange(envio[i].fecha_estimada_entrega, params,
                       "fecha_estimada_desde", "fecha_estimada_hasta")
            /\ Supplied(params, "codigo_rastreo")
                  => ILike(envio[i].codigo_rastreo, params.codigo_rastreo)})},
        skip, limit)

\* filters: envio_id, estado, empleado_id, fecha_desde, fecha_hasta
\* (descripcion is not modelled); ordered by fecha descending
search_shipping_statuses(params, skip, limit) ==
    SearchRows("estado_envio", params,
        OrderByFechaDesc({i \in DOMAIN estado_envio :
            /\ Truthy(params, "envio_id")
                  => estado_envio[i].envio_id = params.envio_id
            /\ Supplied(params, "estado")
                  => estado_envio[i].estado = params.estado
            /\ Truthy(params, "empleado_id")
                  => estado_envio[i].empleado_id = params.empleado_id
            /\ InRange(estado_envio[i].fecha, params,
                       "fecha_desde", "fecha_hasta")}),
        skip, limit)

\* filters: envio_id, fecha_desde, fecha_hasta, estado (motivo is not
\* modelled)
search_returns(params, skip, limit) ==
    SearchRows("devolucion", params,
        {ByPrimaryKey({i \in DOMAIN devolucion :
            /\ Truthy(params, "envio_id")
                  => devolucion[i].envio_id = params.envio_id
            /\ InRange(devolucion[i].fecha, params,
                       "fecha_desde", "fecha_hasta")
            /\ Supplied(params, "estado")
                  => devolucion[i].estado = params.estado})},
        skip, limit)

search_return_details(params, skip, limit) ==
    SearchRows("devolucion_detalle", params,
        {ByPrimaryKey({i \in DOMAIN devolucion_detalle :
            /\ Truthy(params, "devolucion_id")
                  => devolucion_detalle[i].devolucion_id
                        = params.devolucion_id
            /\ Truthy(params, "producto_id")
                  => devolucion_detalle[i].producto_id = params.producto_id
            /\ Truthy(params, "cantidad")
                  => devolucion_detalle[i].cantidad = params.cantidad})},
        skip, limit)

\* .order_by(models.LogBodega.fecha.desc())
\* .order_by(models.LogBodega.fecha.asc()): oldest first
OrderLogsByFechaAsc(ids) ==
    {seq \in Orderings(ids) :
        \A j, k \in DOMAIN seq :
            j < k => log_bodega[seq[j]].fecha <= log_bodega[seq[k]].fecha}

OrderLogsByFechaDesc(ids) ==
    {seq \in Orderings(ids) :
        \A j, k \in DOMAIN seq :
            j < k => log_bodega[seq[j]].fecha >= log_bodega[seq[k]].fecha}

\* "if cantidad is not None:", every other integer filter "if x:"
search_warehouse_logs(params, skip, limit) ==
    SearchRows("log_bodega", params,
        OrderLogsByFechaDesc({i \in DOMAIN log_bodega :
            /\ Truthy(params, "producto_id")
                  => log_bodega[i].producto_id = params.producto_id
            /\ Supplied(params, "cantidad")
                  => log_bodega[i].cantidad = params.cantidad
            /\ InRange(log_bodega[i].fecha, params,
                       "fecha_desde", "fecha_hasta")
            /\ Truthy(params, "bodega_id")
                  => log_bodega[i].bodega_id = params.bodega_id
            /\ Truthy(params, "empleado_id")
                  => log_bodega[i].empleado_id = params.empleado_id}),
        skip, limit)

\* ------------------------------------------- startup and database sessions
\* retries = 5 and delay = 5 (seconds) of wait_for_db
Retries == 5
Delay == 5

\* what engine.connect() does: it returns a connection, raises
\* sqlalchemy.exc.OperationalError (the server cannot be reached or refuses
\* the login), or raises anything else
ConnectOutcomes == {"connected", "OperationalError", "Exception"}

\* wait_for_db is entered: by startup, and by get_db for every request
WaitForDb(op) ==
    [op |-> op, pc |-> "connect", retries |-> Retries, slept |-> 0,
     session |-> "none"]

\* an activity that is inside wait_for_db
InWaitForDb(s) == /\ reqs[s].op \in {"startup", "get_db"}
                  /\ reqs[s].pc \in {"connect", "sleep"}

\* one pass of "while retries > 0" up to the end of the try statement:
\* return engine, or count the OperationalError down and go to sleep; any
\* other exception leaves the function
wait_for_db_connect(s, outcome) ==
    /\ InWaitForDb(s)
    /\ reqs[s].pc = "connect"
    /\ Continue(s, IF outcome = "connected"
                   THEN [reqs[s] EXCEPT !.pc = "engine"]
                   ELSE IF outcome = "OperationalError"
                   THEN [reqs[s] EXCEPT !.pc = "sleep", !.retries = @ - 1]
                   ELSE [reqs[s] EXCEPT !.pc = "raised"])
    /\ UNCHANGED store

\* a loop that starts over with a fresh count after each sleep
wait_for_db_restart(s) ==
    /\ InWaitForDb(s)
    /\ reqs[s].pc = "sleep"
    /\ Continue(s, [reqs[s] EXCEPT !.pc = "connect", !.retries = Retries])
    /\ UNCHANGED store

\* time.sleep(delay), then the loop test: another pass, or the raise after
\* the loop
wait_for_db_sleep(s) ==
    /\ InWaitForDb(s)
    /\ reqs[s].pc = "sleep"
    /\ Continue(s, [reqs[s] EXCEPT
                       !.slept = @ + Delay,
                       !.pc = IF reqs[s].retries > 0 THEN "connect"
                              ELSE "raised"])
    /\ UNCHANGED store

\* startup: wait_for_db returned, the application starts to serve
startup_complete(s) ==
    /\ reqs[s].op = "startup"
    /\ reqs[s].pc = "engine"
    /\ Continue(s, Idle)
    /\ UNCHANGED store

\* startup: wait_for_db raised, "except Exception: ... raise" -- the
\* application does not start
startup_raise(s) ==
    /\ reqs[s].op = "startup"
    /\ reqs[s].pc = "raised"
    /\ Continue(s, [op |-> "aborted", slept |-> reqs[s].slept])
    /\ UNCHANGED store

\* the application is serving: startup has completed
Serving == \A s \in Slots : reqs[s].op \notin {"startup", "aborted"}

\* a request arrives: Depends(get_db) runs get_db up to its yield, and
\* get_db starts with engine = wait_for_db()
get_db_enter(s) ==
    /\ Serving
    /\ FreeSlot(s)
    /\ Continue(s, WaitForDb("get_db"))
    /\ UNCHANGED store

\* get_db: db = SessionLocal(); yield db -- the handler is called
get_db_yield(s) ==
    /\ reqs[s].op = "get_db"
    /\ reqs[s].pc = "engine"
    /\ Continue(s, [reqs[s] EXCEPT !.pc = "handler", !.session = "open"])
    /\ UNCHANGED store

\* the answer to a request whose exception no handler caught
InternalServerError == [status |-> 500, error |-> "internal_server_error"]

\* get_db: wait_for_db raised before a session existed; the request is
\* answered 500
get_db_raise(s) ==
    /\ reqs[s].op = "get_db"
    /\ reqs[s].pc = "raised"
    /\ Finish(s, InternalServerError, 0)
    /\ UNCHANGED store

\* the ways a handler hands control back to get_db: its response, the
\* HTTPException(404) of a handler that re-raises it, the
\* HTTPException(500) of handle_db_error, or an exception that no except
\* clause of the handler catches
HandlerExits ==
    {GetRowsResponse("metodo_envio", 0, 1000),
     ExceptClauses(TRUE, "HTTPException"),
     ExceptClauses(FALSE, "HTTPException"),
     InternalServerError}

\* the handler runs with the session and ends
handler_exit(s, resp) ==
    /\ reqs[s].op = "get_db"
    /\ reqs[s].pc = "handler"
    /\ Continue(s, [op |-> "get_db", pc |-> "finally", retries |-> reqs[s].retries,
                    slept |-> reqs[s].slept, session |-> "open",
                    resp |-> resp])
    /\ UNCHANGED store

\* a get_db that closes the session after the yield without try/finally:
\* the close is skipped when the handler raised
get_db_close_after_yield(s) ==
    /\ reqs[s].op = "get_db"
    /\ reqs[s].pc = "finally"
    /\ Continue(s, [reqs[s] EXCEPT
                       !.pc = "respond",
                       !.session = IF IsError(reqs[s].resp) THEN "open"
                                   ELSE "closed"])
    /\ UNCHANGED store

\* get_db: finally: db.close() -- on the handler's return and on every
\* exception thrown into the generator
get_db_finally(s) ==
    /\ reqs[s].op = "get_db"
    /\ reqs[s].pc = "finally"
    /\ Continue(s, [reqs[s] EXCEPT !.pc = "respond", !.session = "closed"])
    /\ UNCHANGED store

\* the request ends: its response is sent
request_end(s) ==
    /\ reqs[s].op = "get_db"
    /\ reqs[s].pc = "respond"
    /\ Finish(s, reqs[s].resp, 0)
    /\ UNCHANGED store

\* ----------------------------------------------------------- specification
EmptyStore ==
    /\ metodo_envio = EmptyTable
    /\ bodega = EmptyTable
    /\ empleado = EmptyTable
    /\ envio = EmptyTable
    /\ estado_envio = EmptyTable
    /\ devolucion = EmptyTable
    /\ devolucion_detalle = EmptyTable
    /\ log_bodega = EmptyTable
    /\ autoinc = [t \in Tables |-> 0]

\* one multi-statement request at a time; the single-statement handlers
\* still run between its statements
Init ==
    /\ EmptyStore
    /\ reqs = [s \in {1} |-> Idle]
    /\ last = NoResponse

\* MaxInFlight multi-statement requests at a time
InitConcurrent ==
    /\ EmptyStore
    /\ reqs = [s \in 1..MaxInFlight |-> Idle]
    /\ last = NoResponse

\* every create, get-by-id, update and delete request
Next ==
    \/ \E b \in MetodoEnvioCreateBodies : create_shipping_method(b)
    \/ \E i \in Ids : get_shipping_method(i)
    \/ \E s \in Slots, i \in Ids, b \in MetodoEnvioUpdateBodies :
          update_shipping_method_load(s, i, b)
    \/ \E s \in Slots : update_shipping_method_commit(s)
    \/ \E i \in Ids : delete_shipping_method(i)
    \/ \E b \in BodegaCreateBodies : create_warehouse(b)
    \/ \E i \in Ids : get_warehouse(i)
    \/ \E s \in Slots, i \in Ids, b \in BodegaUpdateBodies :
          update_warehouse_load(s, i, b)
    \/ \E s \in Slots : update_warehouse_commit(s)
    \/ \E i \in Ids : delete_warehouse(i)
    \/ \E b \in EmpleadoCreateBodies : create_employee(b)
    \/ \E i \in Ids : get_employee(i)
    \/ \E s \in Slots, i \in Ids, b \in EmpleadoUpdateBodies :
          update_employee_load(s, i, b)
    \/ \E s \in Slots : update_employee_commit(s)
    \/ \E i \in Ids : delete_employee(i)
    \/ \E s \in Slots, b \in EnvioCreateBodies, c \in GeneratedCodes :
          create_shipping_start(s, b, c)
    \/ \E s \in Slots, c \in GeneratedCodes : create_shipping_check(s, c)
    \/ \E s \in Slots, t \in Times : create_shipping_add_envio(s, t)
    \/ \E s \in Slots, t \in Times : create_shipping_add_estado(s, t)
    \/ \E i \in Ids : get_shipping(i)
    \/ \E s \in Slots, i \in Ids, b \in EnvioPlainUpdateBodies :
          update_shipping_load(s, i, b)
    \/ \E s \in Slots : update_shipping_commit(s)
    \/ \E i \in Ids : delete_shipping(i)
    \/ \E s \in Slots, b \in EstadoEnvioCreateBodies :
          create_shipping_status_check(s, b)
    \/ \E s \in Slots, t \in Times : create_shipping_status_insert(s, t)
    \/ \E i \in 1..Cap("estado_envio") : get_shipping_status(i)
    \/ \E s \in Slots, i \in 1..Cap("estado_envio"),
          b \in EstadoEnvioUpdateBodies : update_shipping_status_load(s, i, b)
    \/ \E s \in Slots : update_shipping_status_commit(s)
    \/ \E i \in 1..Cap("estado_envio") : delete_shipping_status(i)
    \/ \E s \in Slots, b \in DevolucionCreateBodies : create_return_check(s, b)
    \/ \E s \in Slots, t \in Times : create_return_insert(s, t)
    \/ \E i \in Ids : get_return(i)
    \/ \E s \in Slots, i \in Ids, b \in DevolucionUpdateBodies :
          update_return_load(s, i, b)
    \/ \E s \in Slots : update_return_commit(s)
    \/ \E i \in Ids : delete_return(i)
    \/ \E s \in Slots, b \in DevolucionDetalleCreateBodies :
          create_return_detail_check(s, b)
    \/ \E s \in Slots : create_return_detail_insert(s)
    \/ \E i \in Ids : get_return_detail(i)
    \/ \E s \in Slots, i \in Ids, b \in DevolucionDetalleUpdateBodies :
          update_return_detail_load(s, i, b)
    \/ \E s \in Slots : update_return_detail_commit(s)
    \/ \E i \in Ids : delete_return_detail(i)
    \/ \E b \in LogBodegaCreateBodies, t \in Times : create_warehouse_log(b, t)
    \/ \E i \in Ids : get_warehouse_log(i)
    \/ \E s \in Slots, i \in Ids, b \in LogBodegaUpdateBodies :
          update_warehouse_log_load(s, i, b)
    \/ \E s \in Slots : update_warehouse_log_commit(s)
    \/ \E i \in Ids : delete_warehouse_log(i)

Spec == Init /\ [][Next]_vars

\* ------------------------------------------------------- shipments, racing
\* the requests that write the envio table, MaxInFlight of them at a time
NextEnvio ==
    \/ \E b \in MetodoEnvioCreateBodies : create_shipping_method(b)
    \/ \E s \in Slots, b \in EnvioCreateBodies, c \in GeneratedCodes :
          create_shipping_start(s, b, c)
    \/ \E s \in Slots, c \in GeneratedCodes : create_shipping_check(s, c)
    \/ \E s \in Slots, t \in Times : create_shipping_add_envio(s, t)
    \/ \E s \in Slots, t \in Times : create_shipping_add_estado(s, t)
    \/ \E i \in Ids : get_shipping(i)
    \/ \E s \in Slots, i \in Ids, b \in EnvioCodeUpdateBodies :
          update_shipping_load(s, i, b)
    \/ \E s \in Slots : update_shipping_commit(s)
    \/ \E i \in Ids : delete_shipping(i)
    \/ \E i \in 1..Cap("estado_envio") : delete_shipping_status(i)

SpecEnvio == InitConcurrent /\ [][NextEnvio]_vars

\* the same requests over a database connection that can be lost while a
\* create_shipping request is being handled
NextFault ==
    \/ NextEnvio
    \/ \E s \in Slots : create_shipping_rollback(s)

SpecFault == InitConcurrent /\ [][NextFault]_vars

\* ------------------------------------------- shipments and their statuses
\* bodies that set the estimated delivery date
EnvioEtaUpdateBodies == OneField("fecha_estimada_entrega", Times)
\* status bodies of an anonymous client (no empleado)
EstadoEnvioAnonBodies ==
    {b \in EstadoEnvioCreateBodies : b.empleado_id = Null}

\* creating shipments while other requests set their estimated delivery date
\* and add and remove statuses, MaxInFlight requests at a time
NextCreate ==
    \/ \E b \in MetodoEnvioCreateBodies : create_shipping_method(b)
    \/ \E s \in Slots, b \in EnvioCreateBodies, c \in GeneratedCodes :
          create_shipping_start(s, b, c)
    \/ \E s \in Slots, c \in GeneratedCodes : create_shipping_check(s, c)
    \/ \E s \in Slots, t \in Times : create_shipping_add_envio(s, t)
    \/ \E s \in Slots, t \in Times : create_shipping_add_estado(s, t)
    \/ \E s \in Slots, i \in Ids, b \in EnvioEtaUpdateBodies :
          update_shipping_load(s, i, b)
    \/ \E s \in Slots : update_shipping_commit(s)
    \/ \E s \in Slots, b \in EstadoEnvioAnonBodies :
          create_shipping_status_check(s, b)
    \/ \E s \in Slots, t \in Times : create_shipping_status_insert(s, t)
    \/ \E i \in 1..Cap("estado_envio") : delete_shipping_status(i)
    \/ \E i \in Ids : delete_shipping(i)

SpecCreate == InitConcurrent /\ [][NextCreate]_vars

\* ------------------------------------------------------------------ login
\* emails and passwords of employees and of login attempts
LoginEmails == Emails \cup {"otro@empresa.com"}
LoginPasswords == Passwords \cup {"incorrecta"}
EmpleadoLoginBodies == [email : LoginEmails, contrasena : LoginPasswords]
EmpleadoLoginUpdateBodies ==
    OneField("email", LoginEmails) \cup OneField("contrasena", LoginPasswords)
Credentials == [email : LoginEmails, password : LoginPasswords]

\* employees are created, changed and removed, and log in
NextLogin ==
    \/ \E b \in EmpleadoLoginBodies : create_employee(b)
    \/ \E s \in Slots, i \in Ids, b \in EmpleadoLoginUpdateBodies :
          update_employee_load(s, i, b)
    \/ \E s \in Slots : update_employee_commit(s)
    \/ \E i \in Ids : delete_employee(i)
    \/ \E c \in Credentials : login_for_access_token(c)

SpecLogin == Init /\ [][NextLogin]_vars

\* ---------------------------------------------------------- read requests
\* the tracking codes a client can ask for
TrackingCodes == GeneratedCodes \cup ClientCodes
Skips == 0..MaxSkip
\* limit: int = Query(100, ge=1, le=1000) on the list endpoints
ListLimits == {1, 1000}
\* limit: int = Query(100, ge=1, le=500) on the search endpoints
SearchLimits == {1, 500}

\* query parameters of the search endpoints: none, or one filter; an
\* integer filter has no lower bound (cantidad of search_return_details:
\* ge=0), so 0 is a value a client can send
MetodoEnvioSearchParams ==
    {EmptyBody} \cup OneField("tipo", {"estandar", "express"})
BodegaSearchParams == {EmptyBody} \cup OneField("tipo", {"small", "large"})
EmpleadoSearchParams ==
    {EmptyBody} \cup OneField("email", {"ANA@", "Empresa"})
EnvioSearchParams ==
    {EmptyBody} \cup OneField("pedido_id", 0..MaxExt)
                \cup OneField("metodo_envio_id", 0..MaxId)
                \cup OneField("fecha_envio_hasta", Times)
                \cup OneField("fecha_estimada_desde", Times)
                \cup OneField("codigo_rastreo", {"aaaaaaaa"})
EstadoEnvioSearchParams ==
    {EmptyBody} \cup OneField("envio_id", 0..MaxId)
                \cup OneField("estado", {"pendiente", "entregado"})
                \cup OneField("empleado_id", 0..MaxId)
                \cup OneField("fecha_desde", Times)
DevolucionSearchParams ==
    {EmptyBody} \cup OneField("envio_id", 0..MaxId)
                \cup OneField("estado", {"pendiente", "recibido"})
                \cup OneField("fecha_hasta", Times)
DevolucionDetalleSearchParams ==
    {EmptyBody} \cup OneField("devolucion_id", 0..MaxId)
                \cup OneField("producto_id", 0..MaxExt)
                \cup OneField("cantidad", 0..MaxCantidad)
LogBodegaSearchParams ==
    {EmptyBody} \cup OneField("producto_id", 0..MaxExt)
                \cup OneField("cantidad", 0..MaxCantidad)
                \cup OneField("bodega_id", 0..MaxId)
                \cup OneField("empleado_id", 0..MaxId)
                \cup OneField("fecha_desde", Times)

\* the requests that fill the tables
NextPopulate ==
    \/ \E b \in MetodoEnvioCreateBodies : create_shipping_method(b)
    \/ \E b \in BodegaCreateBodies : create_warehouse(b)
    \/ \E b \in EmpleadoCreateBodies : create_employee(b)
    \/ \E s \in Slots, b \in EnvioCreateBodies, c \in GeneratedCodes :
          create_shipping_start(s, b, c)
    \/ \E s \in Slots, c \in GeneratedCodes : create_shipping_check(s, c)
    \/ \E s \in Slots, t \in Times : create_shipping_add_envio(s, t)
    \/ \E s \in Slots, t \in Times : create_shipping_add_estado(s, t)
    \/ \E s \in Slots, b \in EstadoEnvioCreateBodies :
          create_shipping_status_check(s, b)
    \/ \E s \in Slots, t \in Times : create_shipping_status_insert(s, t)
    \/ \E s \in Slots, b \in DevolucionCreateBodies : create_return_check(s, b)
    \/ \E s \in Slots, t \in Times : create_return_insert(s, t)
    \/ \E s \in Slots, b \in DevolucionDetalleCreateBodies :
          create_return_detail_check(s, b)
    \/ \E s \in Slots : create_return_detail_insert(s)
    \/ \E b \in LogBodegaCreateBodies, t \in Times : create_warehouse_log(b, t)

\* the search requests
NextSearch ==
    \/ \E p \in MetodoEnvioSearchParams, k \in Skips, n \in SearchLimits :
          search_shipping_methods(p, k, n)
    \/ \E p \in BodegaSearchParams, k \in Skips, n \in SearchLimits :
          search_warehouses(p, k, n)
    \/ \E p \in EmpleadoSearchParams, k \in Skips, n \in SearchLimits :
          search_employees(p, k, n)
    \/ \E p \in EnvioSearchParams, k \in Skips, n \in SearchLimits :
          search_shippings_range(p, k, n)
    \/ \E p \in EstadoEnvioSearchParams, k \in Skips, n \in SearchLimits :
          search_shipping_statuses(p, k, n)
    \/ \E p \in DevolucionSearchParams, k \in Skips, n \in SearchLimits :
          search_returns(p, k, n)
    \/ \E p \in DevolucionDetalleSearchParams, k \in Skips,
          n \in SearchLimits : search_return_details(p, k, n)
    \/ \E p \in LogBodegaSearchParams, k \in Skips, n \in SearchLimits :
          search_warehouse_logs(p, k, n)

\* the list, get-by-id and track requests
NextRead ==
    \/ \E k \in Skips, n \in ListLimits : get_shipping_methods(k, n)
    \/ \E k \in Skips, n \in ListLimits : get_warehouses(k, n)
    \/ \E k \in Skips, n \in ListLimits : get_employees(k, n)
    \/ \E k \in Skips, n \in ListLimits : get_shippings(k, n)
    \/ \E k \in Skips, n \in ListLimits : get_shipping_statuses(k, n)
    \/ \E k \in Skips, n \in ListLimits : get_returns(k, n)
    \/ \E k \in Skips, n \in ListLimits : get_return_details(k, n)
    \/ \E k \in Skips, n \in ListLimits : get_warehouse_logs(k, n)
    \/ \E i \in Ids : get_shipping_method(i)
    \/ \E i \in Ids : get_warehouse(i)
    \/ \E i \in Ids : get_employee(i)
    \/ \E i \in Ids : get_shipping(i)
    \/ \E i \in 1..Cap("estado_envio") : get_shipping_status(i)
    \/ \E i \in Ids : get_return(i)
    \/ \E i \in Ids : get_return_detail(i)
    \/ \E i \in Ids : get_warehouse_log(i)
    \/ \E c \in TrackingCodes : track_shipping(c)

\* tables that are filled and read in every way
SpecRead == Init /\ [][NextPopulate \/ NextSearch \/ NextRead]_vars

\* --------------------------------------------------- tracking a shipment
\* status bodies that move a status to another time or another shipment
EstadoEnvioMoveBodies ==
    OneField("fecha", TrackTimes) \cup OneField("envio_id", Ids)

\* shipments whose statuses are created, updated, deleted and tracked, one
\* multi-statement request at a time
NextTrack ==
    \/ \E b \in MetodoEnvioCreateBodies : create_shipping_method(b)
    \/ \E s \in Slots, b \in EnvioCreateBodies, c \in GeneratedCodes :
          create_shipping_start(s, b, c)
    \/ \E s \in Slots, c \in GeneratedCodes : create_shipping_check(s, c)
    \/ \E s \in Slots, t \in Times : create_shipping_add_envio(s, t)
    \/ \E s \in Slots, t \in TrackTimes : create_shipping_add_estado(s, t)
    \/ \E s \in Slots, b \in EstadoEnvioAnonBodies :
          create_shipping_status_check(s, b)
    \/ \E s \in Slots, t \in TrackTimes : create_shipping_status_insert(s, t)
    \/ \E s \in Slots, i \in 1..Cap("estado_envio"),
          b \in EstadoEnvioMoveBodies : update_shipping_status_load(s, i, b)
    \/ \E s \in Slots : update_shipping_status_commit(s)
    \/ \E i \in 1..Cap("estado_envio") : delete_shipping_status(i)
    \/ \E c \in TrackingCodes : track_shipping(c)

SpecTrack == Init /\ [][NextTrack]_vars

\* ------------------------------------------------- startup, then requests
\* the application starts; once startup has completed, MaxInFlight requests
\* at a time go through get_db, their handler and the close of the session
InitServe ==
    /\ EmptyStore
    /\ reqs = [s \in 1..MaxInFlight |->
                  IF s = 1 THEN WaitForDb("startup") ELSE Idle]
    /\ last = NoResponse

NextWaitForDb ==
    \/ \E s \in Slots, o \in ConnectOutcomes : wait_for_db_connect(s, o)
    \/ \E s \in Slots : wait_for_db_sleep(s)

NextStartup ==
    \/ \E s \in Slots : startup_complete(s)
    \/ \E s \in Slots : startup_raise(s)

NextServe ==
    \/ \E s \in Slots : get_db_enter(s)
    \/ \E s \in Slots : get_db_yield(s)
    \/ \E s \in Slots : get_db_raise(s)
    \/ \E s \in Slots, r \in HandlerExits : handler_exit(s, r)
    \/ \E s \in Slots : get_db_finally(s)
    \/ \E s \in Slots : request_end(s)

SpecServe == InitServe /\ [][NextWaitForDb \/ NextStartup \/ NextServe]_vars

\* a running call makes progress: engine.connect() gives up after
\* connect_timeout=10 seconds and time.sleep(5) returns
SpecStartup ==
    /\ SpecServe
    /\ WF_vars(NextWaitForDb)
    /\ WF_vars(NextStartup)

\* ------------------------------------------------- updates of one record
\* bodies of concurrent updates: every type of warehouse, and shipment
\* bodies that set the shipping date alone or with the estimated delivery
BodegaRaceBodies == OneField("tipo", {"small", "large", "large non-sortable"})
EnvioRaceBodies ==
    OneField("fecha_envio", TrackTimes)
        \cup [fecha_envio : TrackTimes, fecha_estimada_entrega : Times]

\* warehouses and shipments are created, then updated by MaxInFlight
\* requests at a time
NextRace ==
    \/ \E b \in BodegaCreateBodies : create_warehouse(b)
    \/ \E s \in Slots, i \in Ids, b \in BodegaRaceBodies :
          update_warehouse_load(s, i, b)
    \/ \E s \in Slots : update_warehouse_commit(s)
    \/ \E b \in MetodoEnvioCreateBodies : create_shipping_method(b)
    \/ \E s \in Slots, b \in EnvioCreateBodies, c \in GeneratedCodes :
          create_shipping_start(s, b, c)
    \/ \E s \in Slots, c \in GeneratedCodes : create_shipping_check(s, c)
    \/ \E s \in Slots, t \in Times : create_shipping_add_envio(s, t)
    \/ \E s \in Slots, t \in Times : create_shipping_add_estado(s, t)
    \/ \E s \in Slots, i \in Ids, b \in EnvioRaceBodies :
          update_shipping_load(s, i, b)
    \/ \E s \in Slots : update_shipping_commit(s)

SpecRace == InitConcurrent /\ [][NextRace]_vars

\* -------------------------------------------------- the generation loop
\* the requests of SpecEnvio, where random.choice is fair: a code that the
\* loop can draw again and again is drawn in the end
SpecCodes ==
    /\ InitConcurrent
    /\ [][NextEnvio]_vars
    /\ \A s \in 1..MaxInFlight, c \in GeneratedCodes :
          SF_vars(create_shipping_check(s, c))

\* ------------------------------------------------- the order of results
\* filters of the searches whose order is observed
EnvioIdParams == OneField("envio_id", Ids)
BodegaIdParams == OneField("bodega_id", Ids)

\* statuses, returns and warehouse logs are created with MaxTrackTime
\* timestamps, then searched and listed
NextOrder ==
    \/ \E b \in MetodoEnvioCreateBodies : create_shipping_method(b)
    \/ \E b \in BodegaCreateBodies : create_warehouse(b)
    \/ \E b \in EmpleadoCreateBodies : create_employee(b)
    \/ \E s \in Slots, b \in EnvioCreateBodies, c \in GeneratedCodes :
          create_shipping_start(s, b, c)
    \/ \E s \in Slots, c \in GeneratedCodes : create_shipping_check(s, c)
    \/ \E s \in Slots, t \in Times : create_shipping_add_envio(s, t)
    \/ \E s \in Slots, t \in TrackTimes : create_shipping_add_estado(s, t)
    \/ \E s \in Slots, b \in EstadoEnvioAnonBodies :
          create_shipping_status_check(s, b)
    \/ \E s \in Slots, t \in TrackTimes : create_shipping_status_insert(s, t)
    \/ \E s \in Slots, b \in DevolucionCreateBodies : create_return_check(s, b)
    \/ \E s \in Slots, t \in TrackTimes : create_return_insert(s, t)
    \/ \E b \in LogBodegaCreateBodies, t \in TrackTimes :
          create_warehouse_log(b, t)
    \/ \E p \in EnvioIdParams, k \in Skips, n \in SearchLimits :
          search_shipping_statuses(p, k, n)
    \/ \E p \in BodegaIdParams, k \in Skips, n \in SearchLimits :
          search_warehouse_logs(p, k, n)
    \/ \E p \in EnvioIdParams, k \in Skips, n \in SearchLimits :
          search_returns(p, k, n)
    \/ \E k \in Skips, n \in ListLimits : get_shipping_statuses(k, n)

SpecOrder == Init /\ [][NextOrder]_vars

\* ------------------------------------------------------------------ claims
EstadoIds == 1..Cap("estado_envio")

\* the step answered 404 not_found and wrote nothing
FailsNotFound == last'.resp = NotFound /\ UNCHANGED store

\* the step answered 201 with a record that holds the id the database
\* assigned in table t and the fields of the create input
CreateAnswers(input, idf, t) ==
    /\ last'.resp.status = 201
    /\ last'.resp.body[idf] = autoinc'[t]
    /\ \A f \in DOMAIN input : last'.resp.body[f] = input[f]

\* the body names, in field f, an id that is the key of no row of parent
MissingRef(body, f, parent) ==
    /\ f \in DOMAIN body
    /\ body[f] # Null
    /\ ~Exists(parent, body[f])

\* C1: for each of the eight entities, get-by-id of an id that has no row
\* answers the not-found condition (HTTP 404, error kind not_found) and no
\* other error kind.
C1_GetMissingIsNotFound ==
    [][/\ \A i \in Ids :
            /\ (get_shipping_method(i) /\ ~Exists("metodo_envio", i))
                  => last'.resp = NotFound
            /\ (get_warehouse(i) /\ ~Exists("bodega", i))
                  => last'.resp = NotFound
            /\ (get_employee(i) /\ ~Exists("empleado", i))
                  => last'.resp = NotFound
            /\ (get_shipping(i) /\ ~Exists("envio", i))
                  => last'.resp = NotFound
            /\ (get_return(i) /\ ~Exists("devolucion", i))
                  => last'.resp = NotFound
            /\ (get_return_detail(i) /\ ~Exists("devolucion_detalle", i))
                  => last'.resp = NotFound
            /\ (get_warehouse_log(i) /\ ~Exists("log_bodega", i))
                  => last'.resp = NotFound
       /\ \A i \in EstadoIds :
            (get_shipping_status(i) /\ ~Exists("estado_envio", i))
                  => last'.resp = NotFound
      ]_vars

\* C2: for each entity, the create request that stored its row answers 201
\* with the record (the assigned id and the fields of the input; for a
\* shipment the generated tracking code), and get-by-id of an existing row
\* answers 200 with the stored record.
C2_CreateThenGetYieldsRecord ==
    [][/\ \A b \in MetodoEnvioCreateBodies :
            create_shipping_method(b)
                => CreateAnswers(b, "metodo_envio_id", "metodo_envio")
       /\ \A b \in BodegaCreateBodies :
            create_warehouse(b) => CreateAnswers(b, "bodega_id", "bodega")
       /\ \A b \in EmpleadoCreateBodies :
            create_employee(b)
                => CreateAnswers([email |-> b.email], "empleado_id", "empleado")
       /\ \A s \in Slots, t \in Times :
            /\ (create_shipping_add_estado(s, t) /\ estado_envio' # estado_envio)
                  => /\ CreateAnswers(reqs[s].body, "envio_id", "envio")
                     /\ last'.resp.body.codigo_rastreo = reqs[s].tracking_code
            /\ (create_shipping_status_insert(s, t)
                    /\ estado_envio' # estado_envio)
                  => CreateAnswers(reqs[s].body, "estado_envio_id",
                                   "estado_envio")
            /\ (create_return_insert(s, t) /\ devolucion' # devolucion)
                  => CreateAnswers(reqs[s].body, "devolucion_id", "devolucion")
       /\ \A s \in Slots :
            (create_return_detail_insert(s)
                    /\ devolucion_detalle' # devolucion_detalle)
                  => CreateAnswers(reqs[s].body, "devolucion_detalle_id",
                                   "devolucion_detalle")
       /\ \A b \in LogBodegaCreateBodies, t \in Times :
            (create_warehouse_log(b, t) /\ log_bodega' # log_bodega)
                  => CreateAnswers(b, "log_bodega_id", "log_bodega")
       /\ \A i \in Ids :
            /\ (get_shipping_method(i) /\ Exists("metodo_envio", i))
                  => last'.resp = Success(200, MetodoEnvioSchema(i, metodo_envio[i]))
            /\ (get_warehouse(i) /\ Exists("bodega", i))
                  => last'.resp = Success(200, BodegaSchema(i, bodega[i]))
            /\ (get_employee(i) /\ Exists("empleado", i))
                  => last'.resp = Success(200, EmpleadoSchema(i, empleado[i]))
            /\ (get_shipping(i) /\ Exists("envio", i))
                  => last'.resp = Success(200, EnvioSchema(i, envio[i]))
            /\ (get_return(i) /\ Exists("devolucion", i))
                  => last'.resp = Success(200, DevolucionSchema(i, devolucion[i]))
            /\ (get_return_detail(i) /\ Exists("devolucion_detalle", i))
                  => last'.resp = Success(200,
                        DevolucionDetalleSchema(i, devolucion_detalle[i]))
            /\ (get_warehouse_log(i) /\ Exists("log_bodega", i))
                  => last'.resp = Success(200, LogBodegaSchema(i, log_bodega[i]))
       /\ \A i \in EstadoIds :
            (get_shipping_status(i) /\ Exists("estado_envio", i))
                  => last'.resp = Success(200,
                        EstadoEnvioSchema(i, estado_envio[i]))
      ]_vars

\* C3: a request that ends in an error response has persisted nothing: it
\* committed no transaction that changed the store.
C3_ErrorPersistsNothing == IsError(last.resp) => last.writes = 0

\* C4: when the insert of the initial estado_envio row of a create_shipping
\* request fails (the request ends and estado_envio is as before), the envio
\* row the request inserted is no longer in the store.
C4_FailedCreateLeavesNoShipment ==
    [][\A s \in Slots :
          (/\ reqs[s].op = "create_shipping"
           /\ reqs[s].pc = "add_estado"
           /\ reqs'[s] = Idle
           /\ estado_envio' = estado_envio)
              => reqs[s].db_envio \notin DOMAIN envio'
      ]_vars

\* C5: in every reachable state no two envio rows hold the same tracking
\* code (a row whose codigo_rastreo is NULL holds no code).
C5_TrackingCodesUnique ==
    \A i, j \in DOMAIN envio :
        (i # j /\ envio[i].codigo_rastreo # NoCode)
            => envio[i].codigo_rastreo # envio[j].codigo_rastreo

\* a create_shipping request has passed its pre-insert check with a code
\* that an envio row inserted since then holds
C5_Witness ==
    \E s \in Slots, i \in DOMAIN envio :
        /\ reqs[s].op = "create_shipping"
        /\ reqs[s].pc = "add_envio"
        /\ reqs[s].tracking_code = envio[i].codigo_rastreo

\* C6: every tracking code in the store is an output of the server-side
\* generator, and no request changes the tracking code of an existing row.
C6_TrackingCodeServerGenerated ==
    [][\A i \in DOMAIN envio' :
          /\ envio'[i].codigo_rastreo \in GeneratedCodes
          /\ i \in DOMAIN envio
                => envio'[i].codigo_rastreo = envio[i].codigo_rastreo
      ]_vars

\* C7: in every reachable state every foreign key names an existing row:
\* envio.metodo_envio_id, estado_envio.envio_id, estado_envio.empleado_id
\* when it is not NULL, devolucion.envio_id,
\* devolucion_detalle.devolucion_id, log_bodega.bodega_id and
\* log_bodega.empleado_id.
C7_ForeignKeysReferenceRows ==
    /\ \A i \in DOMAIN envio : Exists("metodo_envio", envio[i].metodo_envio_id)
    /\ \A i \in DOMAIN estado_envio :
          /\ Exists("envio", estado_envio[i].envio_id)
          /\ \/ estado_envio[i].empleado_id = Null
             \/ Exists("empleado", estado_envio[i].empleado_id)
    /\ \A i \in DOMAIN devolucion : Exists("envio", devolucion[i].envio_id)
    /\ \A i \in DOMAIN devolucion_detalle :
          Exists("devolucion", devolucion_detalle[i].devolucion_id)
    /\ \A i \in DOMAIN log_bodega :
          /\ Exists("bodega", log_bodega[i].bodega_id)
          /\ Exists("empleado", log_bodega[i].empleado_id)

\* a create_return request has passed its existence check and the envio it
\* names has been deleted before its insert
C7_Witness ==
    \E s \in Slots :
        /\ reqs[s].op = "create_return"
        /\ reqs[s].pc = "insert"
        /\ ~Exists("envio", reqs[s].body.envio_id)
        /\ autoinc["envio"] > 0

\* C8: creating an estado_envio, devolucion, devolucion_detalle or
\* log_bodega whose body names a parent (envio, empleado, devolucion,
\* bodega) that has no row answers 404 not_found and stores no row.
C8_CreateMissingParentNotFound ==
    [][\A s \in Slots :
          /\ \A b \in EstadoEnvioCreateBodies :
                (/\ create_shipping_status_check(s, b)
                 /\ \/ MissingRef(b, "envio_id", "envio")
                    \/ MissingRef(b, "empleado_id", "empleado"))
                    => FailsNotFound
          /\ \A b \in DevolucionCreateBodies :
                (create_return_check(s, b) /\ MissingRef(b, "envio_id", "envio"))
                    => FailsNotFound
          /\ \A b \in DevolucionDetalleCreateBodies :
                (/\ create_return_detail_check(s, b)
                 /\ MissingRef(b, "devolucion_id", "devolucion"))
                    => FailsNotFound
          /\ \A b \in LogBodegaCreateBodies, t \in Times :
                (/\ create_warehouse_log(b, t)
                 /\ \/ MissingRef(b, "bodega_id", "bodega")
                    \/ MissingRef(b, "empleado_id", "empleado"))
                    => FailsNotFound
      ]_vars

\* C9: a create_shipping request whose metodo_envio_id is the key of no
\* metodo_envio row answers 404 not_found and stores neither an envio nor an
\* estado_envio row.
C9_CreateShippingMissingMethodNotFound ==
    [][\A s \in Slots, t \in Times :
          (/\ create_shipping_add_envio(s, t)
           /\ MissingRef(reqs[s].body, "metodo_envio_id", "metodo_envio"))
              => FailsNotFound
      ]_vars

\* C10: a partial update of an existing envio, estado_envio, devolucion,
\* devolucion_detalle or log_bodega whose body sets a foreign key to an id
\* that is the key of no row answers 404 not_found and leaves the store as
\* it was.
C10_UpdateMissingParentNotFound ==
    [][\A s \in Slots :
          /\ \A i \in EstadoIds, b \in EstadoEnvioUpdateBodies :
                (/\ update_shipping_status_load(s, i, b)
                 /\ Exists("estado_envio", i)
                 /\ MissingRef(b, "empleado_id", "empleado"))
                    => FailsNotFound
          /\ \A i \in Ids, b \in DevolucionUpdateBodies :
                (/\ update_return_load(s, i, b)
                 /\ Exists("devolucion", i)
                 /\ MissingRef(b, "envio_id", "envio"))
                    => FailsNotFound
          /\ \A i \in Ids, b \in DevolucionDetalleUpdateBodies :
                (/\ update_return_detail_load(s, i, b)
                 /\ Exists("devolucion_detalle", i)
                 /\ MissingRef(b, "devolucion_id", "devolucion"))
                    => FailsNotFound
          /\ (/\ update_shipping_commit(s)
              /\ Exists("envio", reqs[s].id)
              /\ MissingRef(reqs[s].data, "metodo_envio_id", "metodo_envio"))
                 => FailsNotFound
          /\ (/\ update_shipping_status_commit(s)
              /\ Exists("estado_envio", reqs[s].id)
              /\ \/ MissingRef(reqs[s].data, "envio_id", "envio")
                 \/ MissingRef(reqs[s].data, "empleado_id", "empleado"))
                 => FailsNotFound
          /\ (/\ update_return_commit(s)
              /\ Exists("devolucion", reqs[s].id)
              /\ MissingRef(reqs[s].data, "envio_id", "envio"))
                 => FailsNotFound
          /\ (/\ update_return_detail_commit(s)
              /\ Exists("devolucion_detalle", reqs[s].id)
              /\ MissingRef(reqs[s].data, "devolucion_id", "devolucion"))
                 => FailsNotFound
          /\ (/\ update_warehouse_log_commit(s)
              /\ Exists("log_bodega", reqs[s].id)
              /\ \/ MissingRef(reqs[s].data, "bodega_id", "bodega")
                 \/ MissingRef(reqs[s].data, "empleado_id", "empleado"))
                 => FailsNotFound
      ]_vars

\* the commit step of the update request in slot s on table t: the row the
\* request loaded keeps every field its body did not set (the fields of
\* reqs[s].data are those the body set to a value other than the loaded one),
\* no other row of the table changes, and when the request answers 200 the
\* fields the body set hold the body's values
KeepsAbsentFields(s, t) ==
    LET id == reqs[s].id
        data == reqs[s].data
    IN Exists(t, id) =>
         /\ DOMAIN Rows(t)' = DOMAIN Rows(t)
         /\ \A j \in DOMAIN Rows(t) \ {id} : Rows(t)'[j] = Rows(t)[j]
         /\ \A f \in (DOMAIN Rows(t)[id]) \ DOMAIN data :
               Rows(t)'[id][f] = Rows(t)[id][f]
         /\ data = EmptyBody => Rows(t)'[id] = Rows(t)[id]
         /\ last'.resp.status = 200 =>
               \A f \in DOMAIN data : Rows(t)'[id][f] = data[f]

\* C11: for every entity, a partial update changes exactly the fields present
\* in the request body: every field the body leaves out keeps its prior
\* value, and an update with an empty body leaves the whole record unchanged.
C11_PartialUpdateKeepsAbsentFields ==
    [][\A s \in Slots :
          /\ update_shipping_method_commit(s)
                => KeepsAbsentFields(s, "metodo_envio")
          /\ update_warehouse_commit(s) => KeepsAbsentFields(s, "bodega")
          /\ update_employee_commit(s) => KeepsAbsentFields(s, "empleado")
          /\ update_shipping_commit(s) => KeepsAbsentFields(s, "envio")
          /\ update_shipping_status_commit(s)
                => KeepsAbsentFields(s, "estado_envio")
          /\ update_return_commit(s) => KeepsAbsentFields(s, "devolucion")
          /\ update_return_detail_commit(s)
                => KeepsAbsentFields(s, "devolucion_detalle")
          /\ update_warehouse_log_commit(s)
                => KeepsAbsentFields(s, "log_bodega")
      ]_vars

\* an update that set one foreign key of a warehouse log was committed and
\* answered with the record: the other fields of the row are those it had
C11_Witness ==
    /\ last.resp.status = 200
    /\ last.writes = 1
    /\ "log_bodega_id" \in DOMAIN last.resp.body
    /\ last.resp.body.bodega_id # last.resp.body.empleado_id

\* C12: for every entity, after a delete request on an existing id,
\* get-by-id on the same id yields not-found; this holds for a record in any
\* reachable state, including a shipment that still has its auto-created
\* initial status.  (What get-by-id answers is a function of the store: it
\* is evaluated in the state the delete request leaves.)
C12_DeleteThenGetIsNotFound ==
    [][/\ \A i \in Ids :
            /\ (delete_shipping_method(i) /\ Exists("metodo_envio", i))
                  => GetResponse("metodo_envio", i, TRUE,
                                 MetodoEnvioSchema(i, metodo_envio[i]))'
                        = NotFound
            /\ (delete_warehouse(i) /\ Exists("bodega", i))
                  => GetResponse("bodega", i, TRUE,
                                 BodegaSchema(i, bodega[i]))' = NotFound
            /\ (delete_employee(i) /\ Exists("empleado", i))
                  => GetResponse("empleado", i, TRUE,
                                 EmpleadoSchema(i, empleado[i]))' = NotFound
            /\ (delete_shipping(i) /\ Exists("envio", i))
                  => GetResponse("envio", i, EnvioValid(envio[i]),
                                 EnvioSchema(i, envio[i]))' = NotFound
            /\ (delete_return(i) /\ Exists("devolucion", i))
                  => GetResponse("devolucion", i, TRUE,
                                 DevolucionSchema(i, devolucion[i]))'
                        = NotFound
            /\ (delete_return_detail(i) /\ Exists("devolucion_detalle", i))
                  => GetResponse("devolucion_detalle", i, TRUE,
                                 DevolucionDetalleSchema(
                                     i, devolucion_detalle[i]))' = NotFound
            /\ (delete_warehouse_log(i) /\ Exists("log_bodega", i))
                  => GetResponse("log_bodega", i, TRUE,
                                 LogBodegaSchema(i, log_bodega[i]))'
                        = NotFound
       /\ \A i \in EstadoIds :
            (delete_shipping_status(i) /\ Exists("estado_envio", i))
               => GetResponse("estado_envio", i, TRUE,
                              EstadoEnvioSchema(i, estado_envio[i]))'
                     = NotFound
      ]_vars

\* C13: for every entity, update and delete addressed to an id that has no
\* row answer the not-found condition (HTTP 404, error kind not_found) and
\* leave the store unchanged.
C13_UpdateDeleteMissingIsNotFound ==
    [][/\ \A i \in Ids :
            /\ (delete_shipping_method(i) /\ ~Exists("metodo_envio", i))
                  => FailsNotFound
            /\ (delete_warehouse(i) /\ ~Exists("bodega", i))
                  => FailsNotFound
            /\ (delete_employee(i) /\ ~Exists("empleado", i))
                  => FailsNotFound
            /\ (delete_shipping(i) /\ ~Exists("envio", i)) => FailsNotFound
            /\ (delete_return(i) /\ ~Exists("devolucion", i))
                  => FailsNotFound
            /\ (delete_return_detail(i) /\ ~Exists("devolucion_detalle", i))
                  => FailsNotFound
            /\ (delete_warehouse_log(i) /\ ~Exists("log_bodega", i))
                  => FailsNotFound
       /\ \A i \in EstadoIds :
            (delete_shipping_status(i) /\ ~Exists("estado_envio", i))
               => FailsNotFound
       /\ \A s \in Slots, i \in Ids :
            /\ (/\ \E b \in MetodoEnvioUpdateBodies :
                      update_shipping_method_load(s, i, b)
                /\ ~Exists("metodo_envio", i)) => FailsNotFound
            /\ (/\ \E b \in BodegaUpdateBodies : update_warehouse_load(s, i, b)
                /\ ~Exists("bodega", i)) => FailsNotFound
            /\ (/\ \E b \in EmpleadoUpdateBodies : update_employee_load(s, i, b)
                /\ ~Exists("empleado", i)) => FailsNotFound
            /\ (/\ \E b \in EnvioPlainUpdateBodies :
                      update_shipping_load(s, i, b)
                /\ ~Exists("envio", i)) => FailsNotFound
            /\ (/\ \E b \in DevolucionUpdateBodies : update_return_load(s, i, b)
                /\ ~Exists("devolucion", i)) => FailsNotFound
            /\ (/\ \E b \in DevolucionDetalleUpdateBodies :
                      update_return_detail_load(s, i, b)
                /\ ~Exists("devolucion_detalle", i)) => FailsNotFound
            /\ (/\ \E b \in LogBodegaUpdateBodies :
                      update_warehouse_log_load(s, i, b)
                /\ ~Exists("log_bodega", i)) => FailsNotFound
       /\ \A s \in Slots, i \in EstadoIds :
            (/\ \E b \in EstadoEnvioUpdateBodies :
                   update_shipping_status_load(s, i, b)
             /\ ~Exists("estado_envio", i)) => FailsNotFound
      ]_vars

\* the step is the last statement of a create_shipping request that is
\* answered 201
CreateShippingSucceeds(s) ==
    /\ \E t \in Times : create_shipping_add_estado(s, t)
    /\ last'.resp.status = 201

Owner(c) == CHOOSE i \in DOMAIN envio : envio[i].codigo_rastreo = c

\* the step is a track request for a code that a shipment holds
TracksExisting(c) ==
    /\ track_shipping(c)
    /\ \E i \in DOMAIN envio : envio[i].codigo_rastreo = c

\* the answer is 200 with exactly the status rows of the owning shipment,
\* each once and as stored
TrackedRows(c) ==
    LET ids == Children("estado_envio", "envio_id", Owner(c))
        items == last'.resp.body.items
    IN /\ last'.resp.status = 200
       /\ Len(items) = Cardinality(ids)
       /\ {items[k].estado_envio_id : k \in DOMAIN items} = ids
       /\ \A k \in DOMAIN items :
             items[k] = EstadoEnvioSchema(items[k].estado_envio_id,
                            estado_envio[items[k].estado_envio_id])

\* C15 (as stated): for an existing tracking code, track returns exactly the
\* status rows of the owning shipment, each once, sorted by timestamp
\* strictly descending, whatever creates, updates and deletes preceded.
C15_TrackStrictlyDescending ==
    [][\A c \in TrackingCodes :
          TracksExisting(c) =>
             /\ TrackedRows(c)
             /\ \A j, k \in DOMAIN last'.resp.body.items :
                   j < k => last'.resp.body.items[j].fecha
                               > last'.resp.body.items[k].fecha
      ]_vars

\* C15 (amended): for an existing tracking code, track returns exactly the
\* status rows of the owning shipment, each once, sorted by timestamp
\* descending, statuses with equal timestamps in either order; with three
\* statuses at times T1 < T2 < T3 the result is [T3, T2, T1].
C15_TrackDescending ==
    [][\A c \in TrackingCodes :
          TracksExisting(c) =>
             LET items == last'.resp.body.items
             IN /\ TrackedRows(c)
                /\ \A j, k \in DOMAIN items :
                      j < k => items[j].fecha >= items[k].fecha
                /\ {items[k].fecha : k \in DOMAIN items} = {1, 2, 3}
                      => /\ items[1].fecha = 3
                         /\ items[2].fecha = 2
                         /\ items[3].fecha = 1
      ]_vars

\* a track request answered the three statuses of one shipment, stored at
\* three different times, latest first
C15_Witness ==
    /\ last.resp.status = 200
    /\ "items" \in DOMAIN last.resp.body
    /\ Len(last.resp.body.items) = 3
    /\ last.resp.body.items[1].fecha = 3
    /\ last.resp.body.items[2].fecha = 2
    /\ last.resp.body.items[3].fecha = 1
    /\ last.resp.body.items[1].estado_envio_id
          < last.resp.body.items[3].estado_envio_id

\* C16: login with an existing email and a wrong password, and login with
\* an email that belongs to no employee, both yield the identical 401 error
\* response (same status code and same body).
C16_BadLoginsAnswerSame401 ==
    [][\A c \in Credentials :
          (/\ login_for_access_token(c)
           /\ \/ \A i \in DOMAIN empleado : empleado[i].email # c.email
              \/ /\ \E i \in DOMAIN empleado : empleado[i].email = c.email
                 /\ \A i \in DOMAIN empleado :
                       empleado[i].email = c.email
                          => ~verify_password(c.password,
                                              empleado[i].contrasena))
             => last'.resp = InvalidCredentials
      ]_vars

\* the step is a search request of any of the eight entities that carries
\* no filter
SearchesWithoutFilter ==
    \E k \in Skips, n \in SearchLimits :
       \/ search_shipping_methods(EmptyBody, k, n)
       \/ search_warehouses(EmptyBody, k, n)
       \/ search_employees(EmptyBody, k, n)
       \/ search_shippings_range(EmptyBody, k, n)
       \/ search_shipping_statuses(EmptyBody, k, n)
       \/ search_returns(EmptyBody, k, n)
       \/ search_return_details(EmptyBody, k, n)
       \/ search_warehouse_logs(EmptyBody, k, n)

\* C17: for each of the eight search endpoints, a search request in which
\* every filter parameter is absent returns the empty list, whatever the
\* tables hold.  (A search step records the filters it carried in last.)
C17_SearchWithoutFilterIsEmpty ==
    [][(/\ "filters" \in DOMAIN last'
        /\ last'.filters = EmptyBody
        /\ SearchesWithoutFilter)
          => /\ last'.resp = Success(200, ListOf(<< >>))
             /\ UNCHANGED store
      ]_vars

\* a search without filters on a table that holds rows was answered with
\* the empty list
C17_Witness ==
    /\ "filters" \in DOMAIN last
    /\ last.filters = EmptyBody
    /\ Rows(last.search) # EmptyTable
    /\ last.resp.status = 200
    /\ last.resp.body.items = << >>

\* the integer filters the search handlers compare for equality; the rows
\* of a response carry the column under the filter's name
NumericFilters ==
    {"pedido_id", "direccion_id", "metodo_envio_id", "envio_id",
     "empleado_id", "devolucion_id", "producto_id", "cantidad", "bodega_id"}

\* C18: for every search endpoint and every numeric filter value admitted
\* by input validation (0 included), when that filter is supplied every
\* returned row has the filtered field equal to the supplied value: a
\* supplied filter is never silently ignored.  (last holds the filters and
\* the answer of the search request most recently answered.)
C18_NumericFilterApplied ==
    (/\ "filters" \in DOMAIN last
     /\ last.resp.status = 200)
       => \A f \in (DOMAIN last.filters) \cap NumericFilters :
             \A k \in DOMAIN last.resp.body.items :
                last.resp.body.items[k][f] = last.filters[f]

\* the rows of a list answer, as a set
ItemSet(resp) == {resp.body.items[j] : j \in DOMAIN resp.body.items}

\* C19: on a table that is not modified between the calls, the list
\* requests (skip=k, limit=n) and (skip=k+n, limit=n) return disjoint pages
\* that together are the rows k+1 .. k+2n of list(skip=0, limit=1000):
\* consecutive pages never overlap and never skip a row.  (What a list
\* request answers is a function of the store; the three answers are taken
\* in the same state.)
C19_PagesPartitionTheList ==
    \A t \in Tables : \A k \in Skips, n \in 1..MaxId :
       LET whole == GetRowsResponse(t, 0, 1000)
           first == GetRowsResponse(t, k, n)
           second == GetRowsResponse(t, k + n, n)
       IN /\ whole.status = 200
          /\ first.status = 200
          /\ second.status = 200
          /\ ItemSet(first) \cap ItemSet(second) = {}
          /\ first.body.items \o second.body.items
                = Page(whole.body.items, k, 2 * n)

\* C20: list, get-by-id, search and track requests on every entity leave
\* the persistent store unchanged, whether they succeed or fail.
C20_ReadsLeaveStoreUnchanged ==
    [][UNCHANGED store \/ ~(NextRead \/ NextSearch)]_vars

\* a read request failed (a shipment that does not fit schemas.Envio was
\* read) and the shipment and its status are in the store
C20_Witness ==
    /\ last.resp.status = 500
    /\ last.resp.internal_error = "ValidationError"
    /\ last.writes = 0
    /\ envio # EmptyTable
    /\ estado_envio # EmptyTable


(* C21: every session get_db opens for a request is closed when the        *)
(* request ends, whichever way the handler ended (response, not_found,     *)
(* database_error, an uncaught exception): a session is open only while    *)
(* the handler runs or get_db is about to close it, and no request ends    *)
(* with its session open.                                                  *)
C21_SessionClosedAtRequestEnd ==
    [][\A s \in Slots :
          /\ (reqs[s].op = "get_db" /\ reqs[s].session = "open")
                => reqs[s].pc \in {"handler", "finally"}
          /\ (reqs[s].op = "get_db" /\ reqs'[s] = Idle)
                => reqs[s].session # "open"
          /\ (reqs[s].op = "get_db" /\ reqs[s].pc = "finally")
                => (reqs'[s] # reqs[s] => reqs'[s].session = "closed")]_vars

\* a request that ended in database_error has been answered, and another
\* whose handler let an exception escape is about to be answered with its
\* session closed
C21_Witness ==
    /\ last.resp = handle_db_error("HTTPException")
    /\ \E s \in Slots :
          /\ reqs[s].op = "get_db"
          /\ reqs[s].pc = "respond"
          /\ reqs[s].resp = InternalServerError
          /\ reqs[s].session = "closed"

\* connection failures wait_for_db has counted in slot s
Failures(s) == Retries - reqs[s].retries

(* C22: the connection loop of startup terminates: it makes at most 5      *)
(* attempts, sleeps 5 seconds after each failed one, returns at the first  *)
(* successful one, raises after 5 failures, and startup re-raises so that  *)
(* no request is served by an application whose startup failed.            *)
C22_StartupLoopTerminates ==
    /\ <>(\A s \in Slots : reqs[s].op # "startup")
    /\ [](\A s \in Slots :
            /\ reqs[s].op = "startup" =>
                  /\ reqs[s].retries \in 0..Retries
                  /\ reqs[s].pc = "connect" => reqs[s].retries > 0
                  /\ reqs[s].slept =
                        Delay * (Failures(s) -
                                 IF reqs[s].pc = "sleep" THEN 1 ELSE 0)
                  /\ (reqs[s].pc = "raised" /\ reqs[s].retries = 0)
                        => reqs[s].slept = Delay * Retries
            /\ reqs[s].op \in {"startup", "aborted"} =>
                  /\ last = NoResponse
                  /\ \A r \in Slots \ {s} : reqs[r] = Idle)
    /\ [][\A s \in Slots : reqs[s].op = "startup" =>
            /\ wait_for_db_connect(s, "connected")
                  => reqs'[s].pc = "engine"
            /\ (reqs[s].pc = "engine" /\ reqs'[s] # reqs[s])
                  => reqs'[s] = Idle
            /\ (reqs[s].pc = "sleep" /\ reqs[s].retries = 0
                   /\ reqs'[s] # reqs[s])
                  => reqs'[s].pc = "raised"
            /\ (reqs[s].pc = "raised" /\ reqs'[s] # reqs[s])
                  => reqs'[s].op = "aborted"]_vars

\* startup failed after 5 connection failures and 25 seconds of sleep
C22_Witness ==
    \E s \in Slots : reqs[s] = [op |-> "aborted", slept |-> Delay * Retries]

(* C23: no request retries a store operation or sleeps: while a request is *)
(* handled, no connection attempt has been repeated and no time has been   *)
(* slept.                                                                  *)
C23_RequestsNeverRetry ==
    \A s \in Slots : reqs[s].op = "get_db" =>
        /\ reqs[s].retries = Retries
        /\ reqs[s].slept = 0


\* the table an update handler writes
UpdateTable(op) == IF op = "update_warehouse" THEN "bodega" ELSE "envio"

\* two requests of one update handler have both loaded the same row and
\* have yet to commit
BothLoaded(s, r) ==
    /\ s # r
    /\ reqs[s].op \in {"update_warehouse", "update_shipping"}
    /\ reqs[r].op = reqs[s].op
    /\ reqs[s].pc = "commit"
    /\ reqs[r].pc = "commit"
    /\ reqs[r].id = reqs[s].id

InLoop(s) == reqs[s].op = "create_shipping" /\ reqs[s].pc = "check"

\* a shipment holds tracking code c
CodeHeld(c) == \E i \in DOMAIN envio : envio[i].codigo_rastreo = c

DeleteStep ==
    \/ \E i \in Ids : delete_shipping_method(i)
    \/ \E i \in Ids : delete_warehouse(i)
    \/ \E i \in Ids : delete_employee(i)
    \/ \E i \in Ids : delete_shipping(i)
    \/ \E i \in EstadoIds : delete_shipping_status(i)
    \/ \E i \in Ids : delete_return(i)
    \/ \E i \in Ids : delete_return_detail(i)
    \/ \E i \in Ids : delete_warehouse_log(i)

(* C26: a successful delete removes exactly the addressed row: one row of  *)
(* one table disappears and every other row of every table is the same     *)
(* field for field afterwards.                                             *)
C26_DeleteRemovesOnlyItsRow ==
    [][(last'.resp.status = 204 /\ DeleteStep) =>
          \E t \in Tables : \E i \in DOMAIN Rows(t) :
              /\ Rows(t)' = Del(Rows(t), i)
              /\ \A u \in Tables \ {t} : Rows(u)' = Rows(u)]_vars


\* the child rows that name row id of table t in a NOT NULL foreign key
Dependents(t, id) ==
    CASE t = "metodo_envio" -> Children("envio", "metodo_envio_id", id)
      [] t = "bodega" -> Children("log_bodega", "bodega_id", id)
      [] t = "empleado" -> Children("log_bodega", "empleado_id", id)
      [] t = "envio" -> Children("estado_envio", "envio_id", id)
                           \cup Children("devolucion", "envio_id", id)
      [] t = "devolucion" ->
             Children("devolucion_detalle", "devolucion_id", id)
      [] OTHER -> {}

\* the delete handler of table t, called for row id
DeleteOf(t, id) ==
    CASE t = "metodo_envio" -> delete_shipping_method(id)
      [] t = "bodega" -> delete_warehouse(id)
      [] t = "empleado" -> delete_employee(id)
      [] t = "envio" -> delete_shipping(id)
      [] t = "devolucion" -> delete_return(id)

ParentTables == {"metodo_envio", "bodega", "empleado", "envio", "devolucion"}

(* C27: the delete of a row that child rows still name in a NOT NULL       *)
(* foreign key is answered database_error and changes no table; no step    *)
(* removes such a row, so a shipment goes only after its status rows and   *)
(* returns have gone.                                                      *)
C27_ReferencedParentIsNotDeleted ==
    [][\A t \in ParentTables :
          /\ \A id \in DOMAIN Rows(t) :
                (Dependents(t, id) # {} /\ reqs' = reqs /\ DeleteOf(t, id))
                   => /\ last'.resp = handle_db_error("IntegrityError")
                      /\ UNCHANGED store
          /\ \A id \in (DOMAIN Rows(t)) \ (DOMAIN Rows(t)') :
                Dependents(t, id) = {}]_vars

\* a delete has been refused with both shipments still named by their
\* status rows, one of which is the initial status of a created shipment
C27_Witness ==
    /\ last = Done(handle_db_error("IntegrityError"), 0)
    /\ DOMAIN envio = 1..MaxId
    /\ autoinc["envio"] = MaxId
    /\ \A i \in DOMAIN envio : Children("estado_envio", "envio_id", i) # {}
    /\ reqs = [s \in Slots |-> Idle]


\* the stored password of an employee row is the hash of a password a
\* client sent
StoredHashed(row) ==
    \E p \in LoginPasswords : row.contrasena = get_password_hash(p)

(* C28: the stored password of every employee is the password hash of a    *)
(* password a client supplied, never the password itself: an update that   *)
(* carries contrasena hands the hash of the new value to the session, and  *)
(* the commit of an update stores that hash or, when the update carries    *)
(* none, leaves the stored hash as it was.                                 *)
C28_StoredPasswordsAreHashes ==
    /\ [](\A i \in DOMAIN empleado : StoredHashed(empleado[i]))
    /\ [][\A s \in Slots :
            /\ \A i \in DOMAIN empleado, p \in LoginPasswords :
                  (/\ reqs[s] = Idle
                   /\ update_employee_load(s, i, [contrasena |-> p]))
                  => \/ reqs'[s].data = [contrasena |-> get_password_hash(p)]
                     \/ /\ reqs'[s].data = EmptyBody
                        /\ empleado[i].contrasena = get_password_hash(p)
            /\ (reqs[s].op = "update_employee" /\ reqs'[s] = Idle
                   /\ reqs[s].id \in DOMAIN empleado)
                  => empleado'[reqs[s].id].contrasena =
                        IF "contrasena" \in DOMAIN reqs[s].data
                        THEN reqs[s].data.contrasena
                        ELSE empleado[reqs[s].id].contrasena]_vars

\* an update has been answered after it wrote a row that now holds the
\* hash of the second password, and an update of the password is under way
C28_Witness ==
    /\ last.resp.status = 200
    /\ last.writes = 1
    /\ "empleado_id" \in DOMAIN last.resp.body
    /\ empleado[last.resp.body.empleado_id].contrasena =
          get_password_hash("incorrecta")
    /\ \E s \in Slots :
          /\ reqs[s].op = "update_employee"
          /\ reqs[s].data = [contrasena |-> get_password_hash("secreto01")]


\* ids is the page (skip, limit) of the rows matching, newest first: it is
\* in descending order of fecha, it has the length of the page, and each of
\* its rows stands, in every descending order of the matching rows, after
\* the rows skipped and before the rows of the later pages
NewestFirstPage(ids, matching, fecha, skip, limit) ==
    /\ \A j, k \in DOMAIN ids : j < k => fecha[ids[j]] >= fecha[ids[k]]
    /\ \A j, k \in DOMAIN ids : j # k => ids[j] # ids[k]
    /\ \A j \in DOMAIN ids : ids[j] \in matching
    /\ Len(ids) = IF Cardinality(matching) <= skip THEN 0
                  ELSE IF Cardinality(matching) - skip < limit
                  THEN Cardinality(matching) - skip
                  ELSE limit
    /\ \A j \in DOMAIN ids :
          /\ Cardinality({i \in matching : fecha[i] > fecha[ids[j]]})
                < skip + limit
          /\ Cardinality({i \in matching : fecha[i] >= fecha[ids[j]]})
                > skip

\* the ids of the rows of a list response, in the order of the response
ItemIds(resp, idf) ==
    [j \in DOMAIN resp.body.items |-> resp.body.items[j][idf]]

AnswersNotFound ==
    /\ last' = Done(NotFound, 0)
    /\ reqs' = reqs
    /\ UNCHANGED store

(* C30: an update of a return whose envio_id is the one the return already *)
(* has goes on to its commit without a look at the shipment; one whose     *)
(* envio_id is another, of no existing shipment, is answered 404 with      *)
(* nothing changed; and in the create and update handlers of returns and   *)
(* return details every not_found is answered as 404, never as             *)
(* database_error.                                                         *)
C30_ReturnHandlersReraiseNotFound ==
    [][\A s \in Slots : FreeSlot(s) =>
          /\ \A i \in Ids, b \in DevolucionUpdateBodies :
                update_return_load(s, i, b) =>
                   IF ~Exists("devolucion", i) THEN AnswersNotFound
                   ELSE IF Field(b, "envio_id") = devolucion[i].envio_id
                   THEN /\ reqs'[s].op = "update_return"
                        /\ reqs'[s].pc = "commit"
                        /\ UNCHANGED <<last, store>>
                   ELSE IF /\ Field(b, "envio_id") # Null
                           /\ ~Exists("envio", b.envio_id)
                   THEN AnswersNotFound
                   ELSE reqs'[s].op = "update_return"
          /\ \A b \in DevolucionCreateBodies :
                (~Exists("envio", b.envio_id) /\ create_return_check(s, b))
                   => AnswersNotFound
          /\ \A b \in DevolucionDetalleCreateBodies :
                (~Exists("devolucion", b.devolucion_id)
                    /\ create_return_detail_check(s, b))
                   => AnswersNotFound
          /\ \A i \in Ids, b \in DevolucionDetalleUpdateBodies :
                (/\ \/ ~Exists("devolucion_detalle", i)
                    \/ /\ Field(b, "devolucion_id") # Null
                       /\ ~Exists("devolucion", b.devolucion_id)
                 /\ update_return_detail_load(s, i, b))
                   => AnswersNotFound]_vars

\* a request about a return has been answered 404 while return 1 belongs
\* to shipment 1 and shipment 2 does not exist
C30_Witness ==
    /\ last = Done(NotFound, 0)
    /\ 1 \in DOMAIN devolucion
    /\ devolucion[1].envio_id = 1
    /\ 1 \in DOMAIN envio
    /\ 2 \notin DOMAIN envio

====
